---- MODULE Spec2Model ----
(***************************************************************************)
(* A model of the WHOIS ingestion pipeline of create_db.py: the registry   *)
(* classifier (get_source), the property extractor (parse_property), the   *)
(* address normalizer (parse_property_inetnum), the block segmenter        *)
(* (read_blocks), the workers (parse_blocks) and the orchestrator (main).  *)
(*                                                                         *)
(* Byte strings are sequences of one-character strings, so that the        *)
(* regular expressions, strip/split/replace and the number conversions of  *)
(* the source are computed character by character.                         *)
(***************************************************************************)
EXTENDS Integers, Sequences, FiniteSets, TLC

(***************************************************************************)
(* Bytes helpers                                                           *)
(***************************************************************************)

\* The characters matched by \s in a bytes pattern and removed by bytes.strip().
Space == {" ", "\t", "\n", "\r", "\f"}

Digits == {"0", "1", "2", "3", "4", "5", "6", "7", "8", "9"}

DigitVal ==
  "0" :> 0 @@ "1" :> 1 @@ "2" :> 2 @@ "3" :> 3 @@ "4" :> 4 @@
  "5" :> 5 @@ "6" :> 6 @@ "7" :> 7 @@ "8" :> 8 @@ "9" :> 9

DigitChar == <<"0", "1", "2", "3", "4", "5", "6", "7", "8", "9">>

Min(S) == CHOOSE x \in S : \A y \in S : x <= y

Max(S) == CHOOSE x \in S : \A y \in S : x >= y

\* s[i..j] (1-based, inclusive); empty when j < i.
Slice(s, i, j) == IF j < i THEN <<>> ELSE SubSeq(s, i, j)

\* bytes.startswith at offset i: p occurs in s at position i.
StartsWithAt(s, p, i) ==
  /\ i >= 1
  /\ i + Len(p) - 1 <= Len(s)
  /\ \A k \in 1..Len(p) : s[i + k - 1] = p[k]

StartsWith(s, p) == StartsWithAt(s, p, 1)

\* p in s
Contains(s, p) == \E i \in 1..(Len(s) + 1) : StartsWithAt(s, p, i)

\* The positions at which ^ matches under re.MULTILINE.
LineStarts(s) == {i \in 1..Len(s) : i = 1 \/ s[i - 1] = "\n"}

\* First position at or after i that does not hold a character of set C
\* (Len(s) + 1 when the run reaches the end): where a greedy C* stops.
SkipSet(s, i, C) ==
  Min({j \in i..(Len(s) + 1) : j = Len(s) + 1 \/ s[j] \notin C})

SkipSpace(s, i) == SkipSet(s, i, Space)

\* bytes.strip()
Strip(s) ==
  LET keep == {i \in 1..Len(s) : s[i] \notin Space}
  IN IF keep = {} THEN <<>> ELSE SubSeq(s, Min(keep), Max(keep))

RECURSIVE Concat(_)
\* b"".join(seq)
Concat(ss) == IF ss = <<>> THEN <<>> ELSE Head(ss) \o Concat(Tail(ss))

RECURSIVE JoinSpace(_)
\* b" ".join(seq)
JoinSpace(ss) ==
  IF ss = <<>> THEN <<>>
  ELSE IF Len(ss) = 1 THEN Head(ss)
  ELSE Head(ss) \o <<" ">> \o JoinSpace(Tail(ss))

RECURSIVE SplitOn(_, _)
\* s.split(c) for a single separator character c: never empty, keeps empty
\* fields.
SplitOn(s, c) ==
  LET hits == {i \in 1..Len(s) : s[i] = c}
  IN IF hits = {} THEN <<s>>
     ELSE <<Slice(s, 1, Min(hits) - 1)>> \o SplitOn(Slice(s, Min(hits) + 1, Len(s)), c)

RECURSIVE SplitWs(_)
\* s.split(): the maximal runs of non-whitespace characters.
SplitWs(s) ==
  LET i == SkipSpace(s, 1)
  IN IF i > Len(s) THEN <<>>
     ELSE LET j == Min({k \in i..(Len(s) + 1) : k = Len(s) + 1 \/ s[k] \in Space})
          IN <<Slice(s, i, j - 1)>> \o SplitWs(Slice(s, j, Len(s)))

RECURSIVE Replace(_, _)
\* s.replace(p, b""): every non-overlapping occurrence of p, left to right.
Replace(s, p) ==
  IF s = <<>> THEN <<>>
  ELSE IF StartsWith(s, p) THEN Replace(Slice(s, Len(p) + 1, Len(s)), p)
  ELSE <<Head(s)>> \o Replace(Tail(s), p)

RECURSIVE ParseDec(_)
\* The value of a run of decimal digits.
ParseDec(s) ==
  IF s = <<>> THEN 0 ELSE ParseDec(Slice(s, 1, Len(s) - 1)) * 10 + DigitVal[s[Len(s)]]

RECURSIVE FormatDec(_)
\* str(n) for n >= 0.
FormatDec(n) ==
  IF n < 10 THEN <<DigitChar[n + 1]>> ELSE FormatDec(n \div 10) \o <<DigitChar[(n % 10) + 1]>>

AllDigits(s) == \A i \in 1..Len(s) : s[i] \in Digits

(***************************************************************************)
(* Field names and literals of the source                                  *)
(***************************************************************************)

s_inetnum == <<"i", "n", "e", "t", "n", "u", "m", ":">>

s_inet6num == <<"i", "n", "e", "t", "6", "n", "u", "m", ":">>

s_route == <<"r", "o", "u", "t", "e", ":">>

s_route6 == <<"r", "o", "u", "t", "e", "6", ":">>

s_remarks == <<"r", "e", "m", "a", "r", "k", "s", ":">>

s_cust_source == <<"c", "u", "s", "t", "_", "s", "o", "u", "r", "c", "e">>

n_netname == <<"n", "e", "t", "n", "a", "m", "e">>

n_origin == <<"o", "r", "i", "g", "i", "n">>

n_descr == <<"d", "e", "s", "c", "r">>

n_country == <<"c", "o", "u", "n", "t", "r", "y">>

n_city == <<"c", "i", "t", "y">>

n_mnt_by == <<"m", "n", "t", "-", "b", "y">>

n_created == <<"c", "r", "e", "a", "t", "e", "d">>

n_last_modified == <<"l", "a", "s", "t", "-", "m", "o", "d", "i", "f", "i", "e", "d">>

n_changed == <<"c", "h", "a", "n", "g", "e", "d">>

n_status == <<"s", "t", "a", "t", "u", "s">>

s_afrinic == <<"a", "f", "r", "i", "n", "i", "c">>

s_apnic == <<"a", "p", "n", "i", "c">>

s_arin == <<"a", "r", "i", "n">>

s_lacnic == <<"l", "a", "c", "n", "i", "c">>

s_ripe == <<"r", "i", "p", "e">>

\* Python values of type Optional[str]: None, or a string.
None == [t |-> "None"]

Str(v) == [t |-> "str", v |-> v]

\* The truth value Python gives an Optional[str]: None and "" are false.
Truthy(x) == x.t = "str" /\ x.v # <<>>

(***************************************************************************)
(* parse_property_inetnum: the seven patterns                              *)
(***************************************************************************)

\* The characters of [0-9a-fA-F:\/].
HexSlash ==
  Digits \cup {"a", "b", "c", "d", "e", "f", "A", "B", "C", "D", "E", "F", ":", "/"}

\* {1,43} of the inet6num and route6 patterns.
V6MaxLen == 43

RECURSIVE MatchOctets(_, _, _)
\* (?:\d{1,3}\.){ndots}\d{1,3} at position i: the position after the match,
\* 0 when there is none. \d{1,3} is greedy; giving a digit back never helps,
\* since the character that follows would again be a digit.
MatchOctets(s, i, ndots) ==
  LET e == SkipSet(s, i, Digits)
      k == IF e - i > 3 THEN i + 3 ELSE e
  IN IF k = i THEN 0
     ELSE IF ndots = 0 THEN k
     ELSE IF k <= Len(s) /\ s[k] = "." THEN MatchOctets(s, k + 1, ndots - 1)
     ELSE 0

\* ^inetnum:[\s]*(quad)[\s]*-[\s]*(quad) at line start i: the two groups,
\* <<>> when there is no match.
RangeAt(s, i) ==
  IF ~StartsWithAt(s, s_inetnum, i) THEN <<>>
  ELSE LET a == SkipSpace(s, i + Len(s_inetnum))
           ae == MatchOctets(s, a, 3)
       IN IF ae = 0 THEN <<>>
          ELSE LET d == SkipSpace(s, ae)
               IN IF d > Len(s) \/ s[d] # "-" THEN <<>>
                  ELSE LET b == SkipSpace(s, d + 1)
                           be == MatchOctets(s, b, 3)
                       IN IF be = 0 THEN <<>>
                          ELSE <<Slice(s, a, ae - 1), Slice(s, b, be - 1)>>

\* ^<name>[\s]*((?:\d{1,3}\.){ndots}\d{1,3}/\d+) at line start i (maskmax = 0),
\* or with /\d{1,maskmax}: the group, <<>> when there is no match.
CidrAt(s, i, name, ndots, maskmax) ==
  IF ~StartsWithAt(s, name, i) THEN <<>>
  ELSE LET a == SkipSpace(s, i + Len(name))
           ae == MatchOctets(s, a, ndots)
       IN IF ae = 0 \/ ae > Len(s) THEN <<>>
          ELSE IF s[ae] # "/" THEN <<>>
          ELSE LET e == SkipSet(s, ae + 1, Digits)
                   me == IF maskmax > 0 /\ e - (ae + 1) > maskmax
                         THEN ae + 1 + maskmax ELSE e
               IN IF me = ae + 1 THEN <<>> ELSE Slice(s, a, me - 1)

\* V6At where the set of the pattern has no slash: the match ends before the
\* prefix length.
V6At_without_slash(s, i, name) ==
  IF ~StartsWithAt(s, name, i) THEN <<>>
  ELSE Slice(s, SkipSpace(s, i + Len(name)),
             SkipSet(s, SkipSpace(s, i + Len(name)), HexSlash \ {"/"}) - 1)

\* ^<name>[\s]*([0-9a-fA-F:\/]{1,43}) at line start i.
V6At(s, i, name) ==
  IF ~StartsWithAt(s, name, i) THEN <<>>
  ELSE LET a == SkipSpace(s, i + Len(name))
           e == SkipSet(s, a, HexSlash)
           me == IF e - a > V6MaxLen THEN a + V6MaxLen ELSE e
       IN Slice(s, a, me - 1)

\* match[0] of re.findall(..., re.MULTILINE), for m the matches by line start:
\* the match at the first line start that has one; <<>> when findall returns
\* no match.
FirstMatch(m) ==
  LET hits == {i \in DOMAIN m : m[i] # <<>>}
  IN IF hits = {} THEN <<>> ELSE m[Min(hits)]

(***************************************************************************)
(* netaddr: IPNetwork and iprange_to_cidrs on 32-bit addresses. A network  *)
(* is <<first address, prefix length>>.                                    *)
(***************************************************************************)

width == 32

\* IPNetwork(text) of a dotted quad without a prefix: the address, or -1 for
\* AddrFormatError (an octet above 255 or with a leading zero).
ParseIPv4(text) ==
  LET toks == SplitOn(text, ".")
      ok(t) == /\ t # <<>>
               /\ AllDigits(t)
               /\ (Len(t) = 1 \/ t[1] # "0")
               /\ ParseDec(t) <= 255
  IN IF Len(toks) = 4 /\ \A k \in 1..4 : ok(toks[k])
     THEN ((ParseDec(toks[1]) * 256 + ParseDec(toks[2])) * 256 + ParseDec(toks[3])) * 256
          + ParseDec(toks[4])
     ELSE -1

\* net.last
NetLast(net) == net[1] + 2 ^ (width - net[2]) - 1

RECURSIVE SpanLoop(_, _, _)
\* while prefixlen > 0 and ipnum > lowest_ipnum:
\*     prefixlen -= 1; ipnum &= -(1 << (width - prefixlen))
SpanLoop(ipnum, prefixlen, lowest) ==
  IF prefixlen > 0 /\ ipnum > lowest
  THEN LET p == prefixlen - 1
       IN SpanLoop(ipnum - (ipnum % (2 ^ (width - p))), p, lowest)
  ELSE <<ipnum, prefixlen>>

\* spanning_cidr([a, b]) of two host addresses.
spanning_cidr(a, b) ==
  LET lo == IF a < b THEN a ELSE b
      hi == IF a < b THEN b ELSE a
  IN SpanLoop(hi, width, lo)

RECURSIVE PartitionLoop(_, _, _, _, _, _)
\* The loop of cidr_partition: <<left, right>> (right in append order).
PartitionLoop(excl, new_prefixlen, i_lower, i_upper, left, right) ==
  IF ~(excl[2] >= new_prefixlen) THEN <<left, right>>
  ELSE LET goLeft == excl[1] >= i_upper
           l2 == IF goLeft THEN Append(left, <<i_lower, new_prefixlen>>) ELSE left
           r2 == IF goLeft THEN right ELSE Append(right, <<i_upper, new_prefixlen>>)
           matched == IF goLeft THEN i_upper ELSE i_lower
           np == new_prefixlen + 1
       IN IF np > width THEN <<l2, r2>>
          ELSE PartitionLoop(excl, np, matched, matched + 2 ^ (width - np), l2, r2)

Reverse(s) == [i \in 1..Len(s) |-> s[Len(s) + 1 - i]]

\* cidr_partition(target, exclude): <<before, partition, after>>.
cidr_partition(target, excl) ==
  IF NetLast(excl) < target[1] THEN <<<<>>, <<>>, <<target>>>>
  ELSE IF NetLast(target) < excl[1] THEN <<<<target>>, <<>>, <<>>>>
  ELSE IF target[2] >= excl[2] THEN <<<<>>, <<target>>, <<>>>>
  ELSE LET np == target[2] + 1
           lr == PartitionLoop(excl, np, target[1], target[1] + 2 ^ (width - np),
                               <<>>, <<>>)
       IN <<lr[1], <<excl>>, Reverse(lr[2])>>

\* iprange_to_cidrs with the upper cut taken at end instead of end + 1.
iprange_to_cidrs_cut_at_end(start, end) ==
  LET span0 == spanning_cidr(start, end)
      cut == span0[1] < start
      after == IF cut THEN cidr_partition(span0, <<start - 1, width>>)[3] ELSE <<>>
      list1 == IF cut THEN Slice(after, 1, Len(after) - 1) ELSE <<>>
      span1 == IF cut THEN after[Len(after)] ELSE span0
  IN IF NetLast(span1) > end
     THEN list1 \o cidr_partition(span1, <<end, width>>)[1]
     ELSE Append(list1, span1)

\* iprange_to_cidrs(start, end) of two host addresses.
iprange_to_cidrs(start, end) ==
  LET span0 == spanning_cidr(start, end)
      cut == span0[1] < start
      after == IF cut THEN cidr_partition(span0, <<start - 1, width>>)[3] ELSE <<>>
      list1 == IF cut THEN Slice(after, 1, Len(after) - 1) ELSE <<>>
      span1 == IF cut THEN after[Len(after)] ELSE span0
  IN IF NetLast(span1) > end
     THEN list1 \o cidr_partition(span1, <<end + 1, width>>)[1]
     ELSE Append(list1, span1)

\* shorthand where the missing octets are not filled in.
shorthand_as_written(m, tail) == m

\* tmp = match[0].split(b"/"); f"{tmp[0]}<tail>/{tmp[1]}"
shorthand(m, tail) ==
  SplitOn(m, "/")[1] \o tail \o <<"/">> \o SplitOn(m, "/")[2]

\* parse_property_inetnum with the route pattern tried before the inet6num
\* pattern.
parse_property_inetnum_route_first(block) ==
  LET m1 == FirstMatch([i \in LineStarts(block) |-> RangeAt(block, i)])
      m2 == FirstMatch([i \in LineStarts(block) |-> CidrAt(block, i, s_inetnum, 3, 0)])
      m3 == FirstMatch([i \in LineStarts(block) |-> CidrAt(block, i, s_inetnum, 2, 0)])
      m4 == FirstMatch([i \in LineStarts(block) |-> CidrAt(block, i, s_inetnum, 1, 0)])
      m5 == FirstMatch([i \in LineStarts(block) |-> V6At(block, i, s_inet6num)])
      m6 == FirstMatch([i \in LineStarts(block) |-> CidrAt(block, i, s_route, 3, 2)])
      m7 == FirstMatch([i \in LineStarts(block) |-> V6At(block, i, s_route6)])
  IN IF m1 # <<>>
     THEN LET ip_start == ParseIPv4(m1[1])
              ip_end == ParseIPv4(m1[2])
          IN IF ip_start < 0 \/ ip_end < 0
             THEN [kind |-> "raise"]
             ELSE [kind |-> "list", cidrs |-> iprange_to_cidrs(ip_start, ip_end)]
     ELSE IF m2 # <<>> THEN [kind |-> "bytes", text |-> m2]
     ELSE IF m3 # <<>> THEN [kind |-> "bytes", text |-> shorthand(m3, <<".", "0">>)]
     ELSE IF m4 # <<>>
     THEN [kind |-> "bytes", text |-> shorthand(m4, <<".", "0", ".", "0">>)]
     ELSE IF m6 # <<>> THEN [kind |-> "bytes", text |-> m6]
     ELSE IF m5 # <<>> THEN [kind |-> "bytes", text |-> m5]
     ELSE IF m7 # <<>> THEN [kind |-> "bytes", text |-> m7]
     ELSE [kind |-> "none"]

\* The result of parse_property_inetnum: a list of networks, the matched
\* bytes, None, or the exception raised by netaddr.
parse_property_inetnum(block) ==
  LET m1 == FirstMatch([i \in LineStarts(block) |-> RangeAt(block, i)])
      m2 == FirstMatch([i \in LineStarts(block) |-> CidrAt(block, i, s_inetnum, 3, 0)])
      m3 == FirstMatch([i \in LineStarts(block) |-> CidrAt(block, i, s_inetnum, 2, 0)])
      m4 == FirstMatch([i \in LineStarts(block) |-> CidrAt(block, i, s_inetnum, 1, 0)])
      m5 == FirstMatch([i \in LineStarts(block) |-> V6At(block, i, s_inet6num)])
      m6 == FirstMatch([i \in LineStarts(block) |-> CidrAt(block, i, s_route, 3, 2)])
      m7 == FirstMatch([i \in LineStarts(block) |-> V6At(block, i, s_route6)])
  IN IF m1 # <<>>
     THEN LET ip_start == ParseIPv4(m1[1])
              ip_end == ParseIPv4(m1[2])
          IN IF ip_start < 0 \/ ip_end < 0
             THEN [kind |-> "raise"]
             ELSE [kind |-> "list", cidrs |-> iprange_to_cidrs(ip_start, ip_end)]
     ELSE IF m2 # <<>> THEN [kind |-> "bytes", text |-> m2]
     ELSE IF m3 # <<>> THEN [kind |-> "bytes", text |-> shorthand(m3, <<".", "0">>)]
     ELSE IF m4 # <<>>
     THEN [kind |-> "bytes", text |-> shorthand(m4, <<".", "0", ".", "0">>)]
     ELSE IF m5 # <<>> THEN [kind |-> "bytes", text |-> m5]
     ELSE IF m6 # <<>> THEN [kind |-> "bytes", text |-> m6]
     ELSE IF m7 # <<>> THEN [kind |-> "bytes", text |-> m7]
     ELSE [kind |-> "none"]

\* str(cidr) of an IPNetwork.
FormatCidr(net) ==
  FormatDec(net[1] \div 16777216) \o <<".">> \o
  FormatDec((net[1] \div 65536) % 256) \o <<".">> \o
  FormatDec((net[1] \div 256) % 256) \o <<".">> \o
  FormatDec(net[1] % 256) \o <<"/">> \o FormatDec(net[2])

(***************************************************************************)
(* parse_property and the field rules of parse_blocks                      *)
(***************************************************************************)

\* Where a greedy .+ stops: the next newline at or after p, or the end.
EndOfLine(s, p) == Min({j \in p..(Len(s) + 1) : j = Len(s) + 1 \/ s[j] = "\n"})

\* .+ matches at q: a character that is not a newline is there.
DotPlusAt(s, q) == q <= Len(s) /\ s[q] # "\n"

\* (.+)$ matched at q: <<group, position after the match>>.
DotPlus(s, q) == <<Slice(s, q, EndOfLine(s, q) - 1), EndOfLine(s, q)>>

\* \s?(.+)$ at p, the position after the colon. \s? takes a whitespace
\* character (a newline included) when one is there, and gives it back only
\* when .+ would otherwise find nothing to match.
PropAfterColon(s, p) ==
  IF p <= Len(s) /\ s[p] \in Space /\ DotPlusAt(s, p + 1) THEN DotPlus(s, p + 1)
  ELSE IF DotPlusAt(s, p) THEN DotPlus(s, p)
  ELSE <<>>

\* ^<name>:\s?(.+)$ at line start i: <<group, position after the match>>,
\* <<>> when there is no match.
PropAt(s, i, name) ==
  IF StartsWithAt(s, name \o <<":">>, i) THEN PropAfterColon(s, i + Len(name) + 1)
  ELSE <<>>

\* The line starts at or after pos where the pattern matches.
PropHits(s, pos, name) ==
  {i \in LineStarts(s) : i >= pos /\ PropAt(s, i, name) # <<>>}

RECURSIVE FindAllProp(_, _, _)
\* re.findall(b"^%s:\\s?(.+)$" % name, block, re.MULTILINE), scanning from pos.
FindAllProp(s, pos, name) ==
  IF PropHits(s, pos, name) = {} THEN <<>>
  ELSE <<PropAt(s, Min(PropHits(s, pos, name)), name)[1]>>
       \o FindAllProp(s, PropAt(s, Min(PropHits(s, pos, name)), name)[2], name)

\* x.strip().replace(b"%s: " % name, b"").replace(b"%s: " % name, b"")
CleanMatch(x, name) ==
  Replace(Replace(Strip(x), name \o <<":", " ">>), name \o <<":", " ">>)

\* bytes.decode("latin-1"): each byte becomes the code point of the same
\* number, so the characters are unchanged.
DecodeLatin1(s) == s

\* b" ".join(filter(None, (x.strip().replace(...) for x in match)))
JoinMatches(match, name) ==
  JoinSpace(SelectSeq([k \in 1..Len(match) |-> CleanMatch(match[k], name)],
                      LAMBDA v : v # <<>>))

\* The return value of parse_property for the list match of re.findall.
PropertyOf(match, name) ==
  IF match # <<>> THEN Str(JoinSpace(SplitWs(DecodeLatin1(JoinMatches(match, name)))))
  ELSE None

\* parse_property(block, name)
parse_property(block, name) == PropertyOf(FindAllProp(block, 1, name), name)

\* re.match(r"^.+?@.+? \d+", changed): an @ after at least one character, a
\* space after at least one further character, and a digit after the space.
ChangedPattern(c) ==
  \E a \in 2..Len(c) : \E b \in (a + 2)..(Len(c) - 1) :
    c[a] = "@" /\ c[b] = " " /\ c[b + 1] \in Digits

\* int(s) succeeds: an optional sign, then digits, single underscores allowed
\* between digits.
IntOk(s) ==
  LET body == IF s # <<>> /\ s[1] \in {"+", "-"} THEN Tail(s) ELSE s
  IN /\ body # <<>>
     /\ \A i \in 1..Len(body) : body[i] \in Digits \cup {"_"}
     /\ body[1] # "_" /\ body[Len(body)] # "_"
     /\ \A i \in 1..(Len(body) - 1) : ~(body[i] = "_" /\ body[i + 1] = "_")

\* int(s), for IntOk(s).
IntValue(s) ==
  IF s[1] = "-" THEN 0 - ParseDec(SelectSeq(Tail(s), LAMBDA c : c # "_"))
  ELSE IF s[1] = "+" THEN ParseDec(SelectSeq(Tail(s), LAMBDA c : c # "_"))
  ELSE ParseDec(SelectSeq(s, LAMBDA c : c # "_"))

\* str(n)
FormatInt(n) == IF n < 0 THEN <<"-">> \o FormatDec(0 - n) ELSE FormatDec(n)

\* f"{year}-{month}-{day}"
FormatDate(year, month, day) ==
  FormatInt(year) \o <<"-">> \o FormatInt(month) \o <<"-">> \o FormatInt(day)

\* The branch of the rule on an eight-character date.
ModifiedFromDate(date, last_modified) ==
  IF IntOk(SubSeq(date, 1, 4)) /\ IntOk(SubSeq(date, 5, 6)) /\ IntOk(SubSeq(date, 7, 8))
  THEN IF /\ 1 <= IntValue(SubSeq(date, 5, 6)) /\ IntValue(SubSeq(date, 5, 6)) <= 12
          /\ 1 <= IntValue(SubSeq(date, 7, 8)) /\ IntValue(SubSeq(date, 7, 8)) <= 31
       THEN [raised |-> FALSE,
             value |-> Str(FormatDate(IntValue(SubSeq(date, 1, 4)),
                                      IntValue(SubSeq(date, 5, 6)),
                                      IntValue(SubSeq(date, 7, 8))))]
       ELSE [raised |-> FALSE, value |-> last_modified]
  ELSE [raised |-> TRUE, value |-> None]

\* date = changed.split(" ")[1].strip(), and the rule on it.
ModifiedFromChanged(date, last_modified) ==
  IF Len(date) = 8 THEN ModifiedFromDate(date, last_modified)
  ELSE [raised |-> FALSE, value |-> last_modified]

\* The rule on the values of last-modified and changed.
ModifiedOf(last_modified, changed) ==
  IF Truthy(last_modified) THEN [raised |-> FALSE, value |-> last_modified]
  ELSE IF Truthy(changed) /\ ChangedPattern(changed.v)
  THEN ModifiedFromChanged(Strip(SplitOn(changed.v, " ")[2]), last_modified)
  ELSE IF Truthy(changed) /\ Contains(changed.v, <<"@">>)
  THEN [raised |-> FALSE, value |-> last_modified]
  ELSE [raised |-> FALSE, value |-> changed]

\* The last_modified rule of parse_blocks: [raised, value]. raised is the
\* ValueError of int().
modified_rule(block) ==
  ModifiedOf(parse_property(block, n_last_modified), parse_property(block, n_changed))

\* if not netname: netname = parse_property(block, b"origin")
NetnameOf(netname, origin) == IF ~Truthy(netname) THEN origin ELSE netname

\* netname, with the origin fallback.
netname_rule(block) ==
  NetnameOf(parse_property(block, n_netname), parse_property(block, n_origin))

\* str(x) inside an f-string: None is written "None".
FormatOpt(x) == IF x.t = "None" THEN <<"N", "o", "n", "e">> ELSE x.v

\* if city: country = f"{country} - {city}"
CountryOf(country, city) ==
  IF Truthy(city) THEN Str(FormatOpt(country) \o <<" ", "-", " ">> \o city.v)
  ELSE country

\* country, with the city suffix.
country_rule(block) ==
  CountryOf(parse_property(block, n_country), parse_property(block, n_city))

(***************************************************************************)
(* get_source and read_blocks                                              *)
(***************************************************************************)

\* get_source with the ripe test before the lacnic test.
get_source_ripe_first(filename) ==
  IF StartsWith(filename, s_afrinic) THEN Str(s_afrinic)
  ELSE IF StartsWith(filename, s_apnic) THEN Str(s_apnic)
  ELSE IF StartsWith(filename, s_arin) THEN Str(s_arin)
  ELSE IF StartsWith(filename, s_ripe) THEN Str(s_ripe)
  ELSE IF Contains(filename, s_lacnic) THEN Str(s_lacnic)
  ELSE None

\* get_source(filename): the registry tag, or None.
get_source(filename) ==
  IF StartsWith(filename, s_afrinic) THEN Str(s_afrinic)
  ELSE IF StartsWith(filename, s_apnic) THEN Str(s_apnic)
  ELSE IF StartsWith(filename, s_arin) THEN Str(s_arin)
  ELSE IF Contains(filename, s_lacnic) THEN Str(s_lacnic)
  ELSE IF StartsWith(filename, s_ripe) THEN Str(s_ripe)
  ELSE None

\* filename.split("/")[-1]
BaseName(filename) ==
  LET parts == SplitOn(filename, "/") IN parts[Len(parts)]

\* line.startswith(b"%") or line.startswith(b"#") or line.startswith(b"remarks:")
IsComment(line) ==
  \/ StartsWith(line, <<"%">>)
  \/ StartsWith(line, <<"#">>)
  \/ StartsWith(line, s_remarks)

\* IsRecognised without the test of the object type: any block that is not
\* empty is kept.
IsRecognised_any_type(single_block) == single_block # <<>>

\* single_block starts with one of the four object types.
IsRecognised(single_block) ==
  \/ StartsWith(single_block, s_inetnum)
  \/ StartsWith(single_block, s_inet6num)
  \/ StartsWith(single_block, s_route)
  \/ StartsWith(single_block, s_route6)

\* The state of the loop of read_blocks before its first line.
read_start == [single_block |-> <<>>, blocks |-> <<>>, raised |-> FALSE]

\* read_line where a discarded line also ends the block being collected.
read_line_comment_ends_block(st, line, cust_source) ==
  IF st.raised THEN st
  ELSE IF IsComment(line) THEN [st EXCEPT !.single_block = <<>>]
  ELSE IF Strip(line) = <<>>
  THEN IF IsRecognised(st.single_block)
       THEN IF cust_source.t = "None"
            THEN [st EXCEPT !.raised = TRUE]
            ELSE [st EXCEPT
                    !.blocks = Append(@, st.single_block \o s_cust_source
                                          \o <<":", " ">> \o cust_source.v),
                    !.single_block = <<>>]
       ELSE [st EXCEPT !.single_block = <<>>]
  ELSE [st EXCEPT !.single_block = @ \o line]

\* One iteration of the loop of read_blocks. b"cust_source: %s" % cust_source
\* raises TypeError when cust_source is None: bytes formatting takes no None.
read_line(st, line, cust_source) ==
  IF st.raised THEN st
  ELSE IF IsComment(line) THEN st
  ELSE IF Strip(line) = <<>>
  THEN IF IsRecognised(st.single_block)
       THEN IF cust_source.t = "None"
            THEN [st EXCEPT !.raised = TRUE]
            ELSE [st EXCEPT
                    !.blocks = Append(@, st.single_block \o s_cust_source
                                          \o <<":", " ">> \o cust_source.v),
                    !.single_block = <<>>]
       ELSE [st EXCEPT !.single_block = <<>>]
  ELSE [st EXCEPT !.single_block = @ \o line]

RECURSIVE read_lines(_, _, _)
\* The loop of read_blocks over a sequence of lines, from state st.
read_lines(st, lines, cust_source) ==
  IF lines = <<>> THEN st
  ELSE read_lines(read_line(st, Head(lines), cust_source), Tail(lines), cust_source)

\* read_blocks(filename, logger) for a file holding these lines: the loop
\* state at the return statement.
read_blocks(filename, lines) ==
  read_lines(read_start, lines, get_source(BaseName(filename)))

(***************************************************************************)
(* The store, the workers (parse_blocks) and the orchestrator (main)       *)
(***************************************************************************)

t_db == <<".", "d", "b">>

t_gz == <<".", "g", "z">>

t_inetnum_gz == <<".", "d", "b", ".", "i", "n", "e", "t", "n", "u", "m", ".", "g", "z">>

t_inet6num_gz == <<".", "d", "b", ".", "i", "n", "e", "t", "6", "n", "u", "m", ".", "g", "z">>

\* FILELIST
FILELIST ==
  << s_afrinic \o t_db \o t_gz,
     s_apnic \o t_inet6num_gz,
     s_apnic \o t_inetnum_gz,
     s_arin \o t_db \o t_gz,
     s_lacnic \o t_db \o t_gz,
     s_ripe \o t_inetnum_gz,
     s_ripe \o t_inet6num_gz >>

COMMIT_COUNT == 10000

\* The columns of the block table, as class Block declares them.
BlockColumns ==
  { "id", "inetnum", "netname", "description", "country", "maintained_by", "created",
    "last_modified", "source", "status" }

\* The named constraints of the block table: __table_args__ of class Block
\* declares an index and no unique constraint.
BlockConstraints == {}

\* The keys of the block_data dictionary a worker builds.
BlockDataKeys ==
  { "inetnum", "netname", "description", "country", "maintained_by", "created",
    "last_modified", "source", "status", "import_date" }

\* Block(**block_data) returns: the declarative constructor raises TypeError
\* for a keyword that is not an attribute of the class.
BlockAccepts(keys) == keys \subseteq BlockColumns

\* upsert_block(session, block_data) returns: stmt.excluded.<key> raises
\* AttributeError for a key that is not a column, and the statement fails on
\* a constraint the table does not have.
UpsertAccepts(keys) ==
  /\ keys \subseteq BlockColumns
  /\ "uq_block_inetnum_source" \in BlockConstraints

\* setup_connection without drop_all: the table is kept as it is.
setup_connection_keeps_rows(tbl, create_db, drop_existing) == tbl

\* setup_connection(connection_string, create_db, drop_existing): the rows of
\* the table after drop_all and create_all.
setup_connection(tbl, create_db, drop_existing) ==
  IF create_db /\ drop_existing THEN <<>> ELSE tbl

\* block_data, but for its inetnum: the fields a worker parses from the block.
block_data(block, last_modified, import_date) ==
  [ inetnum |-> <<>>,
    netname |-> netname_rule(block),
    description |-> parse_property(block, n_descr),
    country |-> country_rule(block),
    maintained_by |-> parse_property(block, n_mnt_by),
    created |-> parse_property(block, n_created),
    last_modified |-> last_modified,
    source |-> parse_property(block, s_cust_source),
    status |-> parse_property(block, n_status),
    import_date |-> import_date ]

\* The rows a worker builds for one block: one per CIDR of a list, or one for
\* the matched bytes.
block_rows(inetnum, data) ==
  IF inetnum.kind = "list"
  THEN [k \in 1..Len(inetnum.cidrs) |-> [data EXCEPT !.inetnum = FormatCidr(inetnum.cidrs[k])]]
  ELSE <<[data EXCEPT !.inetnum = inetnum.text]>>

\* The columns set_ of on_conflict_do_update assigns from stmt.excluded.
UpsertSet ==
  { "netname", "description", "country", "maintained_by", "created", "last_modified",
    "status", "import_date" }

\* ON CONFLICT DO UPDATE: the existing row with the columns of set_ taken from
\* the proposed row.
on_conflict_do_update(existing, excluded) ==
  [f \in DOMAIN existing |-> IF f \in UpsertSet THEN excluded[f] ELSE existing[f]]

RECURSIVE upsert_rows(_, _)
\* The table after the upserts of rows, in order: a row with the key
\* (inetnum, source) of an existing row replaces its other fields, any other
\* row is added.
upsert_rows(tbl, rows) ==
  IF rows = <<>> THEN tbl
  ELSE LET r == Head(rows)
           hit == {i \in 1..Len(tbl) : tbl[i].inetnum = r.inetnum /\ tbl[i].source = r.source}
       IN upsert_rows(IF hit = {} THEN Append(tbl, r)
                      ELSE [i \in 1..Len(tbl) |->
                              IF i \in hit THEN on_conflict_do_update(tbl[i], r) ELSE tbl[i]],
                      Tail(rows))

\* upsert_block(session, block_data), committed: whether it raised, and the
\* table after it.
upsert_block(tbl, data) ==
  IF UpsertAccepts(DOMAIN data)
  THEN [raised |-> FALSE, table |-> upsert_rows(tbl, <<data>>)]
  ELSE [raised |-> TRUE, table |-> tbl]

\* session.commit(): the table with the pending rows of the session.
commit(tbl, pending, incremental) ==
  IF incremental THEN upsert_rows(tbl, pending) ELSE tbl \o pending

\* A worker before its first block: session = setup_connection(...),
\* counter = 0, blocks_done = 0, import_date = datetime.now().
worker_start(now) ==
  [ pc |-> "running", pending |-> <<>>, counter |-> 0, blocks_done |-> 0,
    warnings |-> 0, import_date |-> now, session |-> "open" ]

\* A process that does not exist: before the first file of a run is read.
worker_none ==
  [ pc |-> "none", pending |-> <<>>, counter |-> 0, blocks_done |-> 0,
    warnings |-> 0, import_date |-> 0, session |-> "none" ]

\* not inetnum
InetnumFalsy(inetnum) ==
  \/ inetnum.kind = "none"
  \/ inetnum.kind = "list" /\ inetnum.cidrs = <<>>

\* A worker an exception ends (of netaddr, of int(), of Block(...) or of
\* upsert_block): the process is over and its session is lost.
worker_failed(w) ==
  [worker |-> [w EXCEPT !.pc = "failed", !.pending = <<>>], commits |-> <<>>]

\* A worker after logging that a block has no inetnum: continue.
worker_skipped(w) ==
  [worker |-> [w EXCEPT !.warnings = @ + 1], commits |-> <<>>]

\* A worker after adding the rows of a block to its session: counter and
\* blocks_done are incremented, and the session is committed when counter
\* reaches a multiple of COMMIT_COUNT.
worker_added(w, pending) ==
  IF (w.counter + 1) % COMMIT_COUNT = 0
  THEN [worker |-> [w EXCEPT !.pending = <<>>, !.counter = 0, !.blocks_done = @ + 1],
        commits |-> pending]
  ELSE [worker |-> [w EXCEPT !.pending = pending, !.counter = @ + 1, !.blocks_done = @ + 1],
        commits |-> <<>>]

\* The iteration from the last_modified rule on, for a block with an inetnum.
parse_blocks_record(w, block, incremental, inetnum, md) ==
  IF md.raised THEN worker_failed(w)
  ELSE IF incremental /\ ~UpsertAccepts(BlockDataKeys) THEN worker_failed(w)
  ELSE IF ~incremental /\ ~BlockAccepts(BlockDataKeys) THEN worker_failed(w)
  ELSE worker_added(w, w.pending
                       \o block_rows(inetnum, block_data(block, md.value, w.import_date)))

\* parse_blocks_inetnum where a block without an inetnum ends the worker.
parse_blocks_inetnum_abort(w, block, incremental, inetnum) ==
  IF inetnum.kind = "raise" THEN worker_failed(w)
  ELSE IF InetnumFalsy(inetnum) THEN worker_failed(w)
  ELSE parse_blocks_record(w, block, incremental, inetnum, modified_rule(block))

\* The iteration on a block whose inetnum has been parsed.
parse_blocks_inetnum(w, block, incremental, inetnum) ==
  IF inetnum.kind = "raise" THEN worker_failed(w)
  ELSE IF InetnumFalsy(inetnum) THEN worker_skipped(w)
  ELSE parse_blocks_record(w, block, incremental, inetnum, modified_rule(block))

(***************************************************************************)
(* web_server: RateLimiter and rate_limit_middleware                       *)
(***************************************************************************)

\* [ts for ts in self.requests[client_id] if ts > window_start]
clean_requests(stamps, window_start) == SelectSeq(stamps, LAMBDA ts : ts > window_start)

\* is_allowed with > for >=: one request more than max_requests is accepted.
is_allowed_one_more(stamps, now, max_requests, window_seconds) ==
  IF Len(clean_requests(stamps, now - window_seconds)) > max_requests
  THEN [allowed |-> FALSE, stamps |-> clean_requests(stamps, now - window_seconds)]
  ELSE [allowed |-> TRUE,
        stamps |-> Append(clean_requests(stamps, now - window_seconds), now)]

\* RateLimiter.is_allowed(client_id) at time now, for stamps the list
\* self.requests[client_id]: whether the request is allowed, and the list
\* after the call.
is_allowed(stamps, now, max_requests, window_seconds) ==
  IF Len(clean_requests(stamps, now - window_seconds)) >= max_requests
  THEN [allowed |-> FALSE, stamps |-> clean_requests(stamps, now - window_seconds)]
  ELSE [allowed |-> TRUE,
        stamps |-> Append(clean_requests(stamps, now - window_seconds), now)]

\* The client id of rate_limit_middleware: the first entry of X-Forwarded-For,
\* else the host of the peer, else "unknown".
client_ip(forwarded, host) ==
  IF forwarded # "" THEN forwarded ELSE IF host # "" THEN host ELSE "unknown"

(***************************************************************************)
(* State                                                                   *)
(***************************************************************************)

VARIABLES
  in_case,    \* the address line handed to parse_property_inetnum, as data
  in_block,   \* the block handed to parse_property_inetnum, as bytes
  in_result,  \* what parse_property_inetnum returned
  pp_block,   \* the block handed to parse_property and to the field rules
  pp_name,    \* the field name handed to parse_property
  pp_result,  \* what parse_property returned
  md_result,  \* what the last_modified rule produced
  co_result,  \* what the country rule produced
  rb_filename, \* the filename handed to read_blocks
  rb_file,    \* the lines read_blocks has read from the file so far
  rb_state,   \* single_block and blocks of read_blocks, and whether it raised
  rb_pc,      \* read_blocks: "reading", "returned" or "raised"
  disk,       \* ./databases: for each entry of FILELIST, whether the file
              \* exists and its lines
  table,      \* the committed rows of the block table
  run_no,     \* the number of the run of the script (1 is the first)
  incremental, \* the mode of the current run
  main_pc,    \* where main is: "setup", "files", "put", "join", "finished"
  file_idx,   \* the index in FILELIST of the entry main is at
  blocks,     \* blocks of main: what read_blocks returned for the file
  put_idx,    \* the number of items main has put on the queue of the file
  join_idx,   \* the index of the worker main is joining
  jobs_buffer, \* the queue: items put and not yet written to its pipe
  jobs_pipe,  \* the queue: items in its pipe, the next to get first
  workers,    \* the worker processes of the file
  run_modes,  \* the mode of each run started so far
  run_rows,   \* the number of rows of the table at the end of each finished run
  st_table,   \* the rows of the block table a write is made on
  st_data,    \* block_data of the last write
  st_result,  \* the last write: "none", "done" or "raised"
  gs_filename, \* the filename handed to get_source
  gs_result,  \* what get_source returned
  rl_now,     \* time.time() of the web server
  rl_requests, \* rate_limiter.requests: for each client id, its timestamps
  rl_accepted, \* for each client id, the timestamps of the requests accepted so far
  rl_last     \* the last request handled and the status of its response

inetnum_vars == <<in_case, in_block, in_result>>

property_vars == <<pp_block, pp_name, pp_result, md_result, co_result>>

segment_vars == <<rb_filename, rb_file, rb_state, rb_pc>>

pipeline_vars ==
  <<disk, table, run_no, incremental, main_pc, file_idx, blocks, put_idx, join_idx,
    jobs_buffer, jobs_pipe, workers, run_modes, run_rows>>

store_vars == <<st_table, st_data, st_result>>

\* The variables of the parts checked on their own, apart from the script.
source_vars == <<gs_filename, gs_result>>

rate_vars == <<rl_now, rl_requests, rl_accepted, rl_last>>

extra_vars == <<store_vars, source_vars, rate_vars>>

vars ==
  <<in_case, in_block, in_result, pp_block, pp_name, pp_result, md_result, co_result,
    rb_filename, rb_file, rb_state, rb_pc,
    disk, table, run_no, incremental, main_pc, file_idx, blocks, put_idx, join_idx,
    jobs_buffer, jobs_pipe, workers, run_modes, run_rows,
    st_table, st_data, st_result, gs_filename, gs_result,
    rl_now, rl_requests, rl_accepted, rl_last>>

Pending == [kind |-> "pending"]

\* The variables of a part of the program that a specification does not run.
IdleInetnum ==
  /\ in_case = [form |-> "none"]
  /\ in_block = <<>>
  /\ in_result = Pending

IdleProperty ==
  /\ pp_block = <<>>
  /\ pp_name = <<>>
  /\ pp_result = Pending
  /\ md_result = Pending
  /\ co_result = Pending

IdleSegment ==
  /\ rb_filename = <<>>
  /\ rb_file = <<>>
  /\ rb_state = [single_block |-> <<>>, blocks |-> <<>>, raised |-> FALSE]
  /\ rb_pc = "idle"

IdlePipeline ==
  /\ disk = <<>>
  /\ table = <<>>
  /\ run_no = 0
  /\ incremental = FALSE
  /\ main_pc = "idle"
  /\ file_idx = 0
  /\ blocks = <<>>
  /\ put_idx = 0
  /\ join_idx = 0
  /\ jobs_buffer = <<>>
  /\ jobs_pipe = <<>>
  /\ workers = <<>>
  /\ run_modes = <<>>
  /\ run_rows = <<>>

IdleStore ==
  /\ st_table = <<>>
  /\ st_data = <<>>
  /\ st_result = "idle"

IdleSource ==
  /\ gs_filename = <<>>
  /\ gs_result = Pending

IdleRate ==
  /\ rl_now = 0
  /\ rl_requests = <<>>
  /\ rl_accepted = <<>>
  /\ rl_last = [kind |-> "idle"]

IdleExtra ==
  /\ IdleStore
  /\ IdleSource
  /\ IdleRate

(***************************************************************************)
(* SpecInetnum: parse_property_inetnum applied to one block                *)
(***************************************************************************)

\* The number of a dotted quad given as four octets.
QuadValue(q) == ((q[1] * 256 + q[2]) * 256 + q[3]) * 256 + q[4]

\* The text of a dotted quad given as four octets.
QuadText(q) ==
  FormatDec(q[1]) \o <<".">> \o FormatDec(q[2]) \o <<".">> \o
  FormatDec(q[3]) \o <<".">> \o FormatDec(q[4])

\* Addresses the range lines are drawn from. The first octet stays below 64:
\* integers are evaluated below 2^31.
QuadSamples ==
  { <<0, 0, 0, 0>>, <<10, 0, 0, 0>>, <<10, 0, 0, 1>>, <<10, 0, 0, 127>>,
    <<10, 0, 0, 128>>, <<10, 0, 0, 255>>, <<10, 0, 1, 0>>, <<10, 0, 1, 255>>,
    <<10, 0, 2, 0>>, <<10, 0, 255, 255>>, <<10, 168, 0, 0>>, <<10, 168, 1, 255>>,
    <<10, 168, 255, 255>>, <<10, 255, 255, 255>>, <<63, 255, 255, 254>>,
    <<63, 255, 255, 255>> }

\* The whitespace written around the addresses of a range line.
PadSamples == { <<" ">>, <<" ", " ", " ">>, <<"\t">>, <<>> }

\* Range lines: a start and an end address, start <= end.
RangeCases ==
  { c \in [form : {"range"}, a : QuadSamples, b : QuadSamples, pad : PadSamples] :
      QuadValue(c.a) <= QuadValue(c.b) }

\* Octets as the patterns accept them: one to three digits.
OctetSamples == { <<"0">>, <<"7">>, <<"4", "6">>, <<"1", "7", "7">>, <<"0", "0", "7">> }

\* Prefix lengths as the pattern /\d+ accepts them.
MaskSamples == { <<"0">>, <<"8">>, <<"1", "6">>, <<"2", "4">>, <<"1", "2", "8">> }

\* Shorthand lines: three or two octets (a) and a prefix length (b).
ShortCases ==
  [form : {"short"}, a : [1..3 -> OctetSamples] \cup [1..2 -> OctetSamples],
   b : MaskSamples, pad : PadSamples]

\* IPv4 prefixes written in full.
Cidr4Samples ==
  { <<"1", "9", "2", ".", "1", "6", "8", ".", "1", ".", "0", "/", "2", "4">>,
    <<"8", ".", "8", ".", "8", ".", "0", "/", "2", "4">>,
    <<"1", "0", ".", "0", ".", "0", ".", "0", "/", "8">>,
    <<"0", ".", "0", ".", "0", ".", "0", "/", "0">>,
    <<"2", "5", "5", ".", "2", "5", "5", ".", "2", "5", "5", ".", "2", "5", "5", "/", "3", "2">> }

\* IPv6 prefixes, in hexadecimal groups; the longest has 43 characters.
Cidr6Samples ==
  { <<"2", "0", "0", "1", ":", "d", "b", "8", ":", ":", "/", "3", "2">>,
    <<":", ":", "/", "0">>,
    <<"2", "A", "0", "0", ":", "1", "4", "5", "0", ":", ":", "/", "2", "9">>,
    <<"f", "e", "8", "0", ":", ":", "1", "/", "1", "2", "8">>,
    <<"2", "0", "0", "1", ":", "0", "d", "b", "8", ":", "0", "0", "0", "0", ":",
      "0", "0", "0", "0", ":", "0", "0", "0", "0", ":", "0", "0", "0", "0", ":",
      "0", "0", "0", "0", ":", "0", "0", "0", "0", "/", "1", "2", "8">> }

\* Lines with a prefix written in full: the object type (a) and the prefix (b).
PrefixCases ==
  [form : {"prefix"}, a : {s_inetnum, s_route}, b : Cidr4Samples, pad : PadSamples]
  \cup [form : {"prefix"}, a : {s_inet6num, s_route6}, b : Cidr6Samples, pad : PadSamples]

\* One address line for each of the seven patterns, in the order the code
\* tries them: range, full prefix, three octets, two octets, inet6num, route,
\* route6. Each names a different network.
EncodingLines ==
  << <<"i", "n", "e", "t", "n", "u", "m", ":", " ", "1", "0", ".", "0", ".", "0", ".", "0", " ", "-", " ", "1", "0", ".", "0", ".", "0", ".", "2", "5", "5", "\n">>,
     <<"i", "n", "e", "t", "n", "u", "m", ":", " ", "8", ".", "8", ".", "8", ".", "0", "/", "2", "4", "\n">>,
     <<"i", "n", "e", "t", "n", "u", "m", ":", " ", "1", "7", "7", ".", "4", "6", ".", "7", "/", "2", "4", "\n">>,
     <<"i", "n", "e", "t", "n", "u", "m", ":", " ", "1", "4", "8", ".", "2", "0", "4", "/", "1", "6", "\n">>,
     <<"i", "n", "e", "t", "6", "n", "u", "m", ":", " ", "2", "0", "0", "1", ":", "d", "b", "8", ":", ":", "/", "3", "2", "\n">>,
     <<"r", "o", "u", "t", "e", ":", " ", "1", "9", "2", ".", "1", "6", "8", ".", "1", ".", "0", "/", "2", "4", "\n">>,
     <<"r", "o", "u", "t", "e", "6", ":", " ", "2", "a", "0", "0", ":", "1", "4", "5", "0", ":", ":", "/", "2", "9", "\n">> >>

\* Blocks with address lines of two different patterns, in either order: the
\* pattern of the first line (a) and of the second (b).
PairCases ==
  { c \in [form : {"pair"}, a : 1..Len(EncodingLines), b : 1..Len(EncodingLines), pad : {<<>>}] :
      c.a # c.b }

InetnumCases == RangeCases \cup ShortCases \cup PrefixCases \cup PairCases

\* The octets of a shorthand joined with dots.
OctetText(a) ==
  IF Len(a) = 3 THEN a[1] \o <<".">> \o a[2] \o <<".">> \o a[3]
  ELSE a[1] \o <<".">> \o a[2]

\* The address line of a case, followed by a netname line:
\* inetnum:<pad><start><pad>-<pad><end>, inetnum:<pad><octets>/<mask>,
\* <type><pad><prefix>, or the two address lines of a pair.
RenderCase(c) ==
  (IF c.form = "pair"
   THEN EncodingLines[c.a] \o SubSeq(EncodingLines[c.b], 1, Len(EncodingLines[c.b]) - 1)
   ELSE IF c.form = "range"
   THEN s_inetnum \o c.pad \o QuadText(c.a) \o c.pad \o <<"-">> \o c.pad \o QuadText(c.b)
   ELSE IF c.form = "short"
   THEN s_inetnum \o c.pad \o OctetText(c.a) \o <<"/">> \o c.b
   ELSE c.a \o c.pad \o c.b)
  \o <<"\n">> \o n_netname \o <<":", " ", "N", "\n">>

InitInetnum ==
  /\ in_case \in InetnumCases
  /\ in_block = RenderCase(in_case)
  /\ in_result = Pending
  /\ IdleProperty
  /\ IdleSegment
  /\ IdlePipeline
  /\ IdleExtra

\* inetnum = parse_property_inetnum(block)
ParseInetnum ==
  /\ in_result = Pending
  /\ in_result' = parse_property_inetnum(in_block)
  /\ UNCHANGED <<in_case, in_block>>
  /\ UNCHANGED <<property_vars, segment_vars, pipeline_vars>>
  /\ UNCHANGED extra_vars

NextInetnum == ParseInetnum

SpecInetnum == InitInetnum /\ [][NextInetnum]_vars

(***************************************************************************)
(* SpecProperty: parse_property and the last_modified rule applied to one  *)
(* block                                                                   *)
(***************************************************************************)

\* The largest number of lines of a block of SpecProperty.
MaxPropLines == 2

\* Lines the blocks are made of: values with inner and outer whitespace, an
\* empty value, a value that contains the field name, a line without a space
\* after the colon, and lines of other fields.
PropLineSamples ==
  { n_descr \o <<":", " ", "a", "\n">>,
    n_descr \o <<":", " ", " ", "b", " ", " ", "c", " ", "\n">>,
    n_descr \o <<":", "\n">>,
    n_descr \o <<":", " ", " ", "\n">>,
    n_descr \o <<":", "d", "\n">>,
    n_descr \o <<":", " ", "e", " ">> \o n_descr \o <<":", " ", "f", "\n">>,
    n_netname \o <<":", " ", "X", "\n">>,
    n_country \o <<":", " ", "N", "L", "\n">> }

PropNames == {n_descr, n_netname}

PropBlocks ==
  { Concat(ls) : ls \in UNION { [1..n -> PropLineSamples] : n \in 0..MaxPropLines } }

t_email == <<"a", "d", "m", "i", "n", "@", "e", "x", "a", "m", "p", "l", "e", ".", "c", "o", "m">>

\* Values of the changed field: <email> <date> with a valid date, with a day
\* or month out of range, with a day the month does not have, with a date
\* token that is not a number, with a revision, and values without a date.
ChangedSamples ==
  { t_email \o <<" ", "2", "0", "2", "3", "0", "4", "3", "1">>,
    t_email \o <<" ", "2", "0", "2", "3", "0", "2", "3", "0">>,
    t_email \o <<" ", "2", "0", "2", "3", "0", "4", "1", "5">>,
    t_email \o <<" ", "2", "0", "2", "3", "1", "3", "0", "1">>,
    t_email \o <<" ", "2", "0", "2", "3", "0", "4", "3", "2">>,
    t_email \o <<" ", "2", "0", "2", "3", "0", "4", "1", "5", " ", "7">>,
    t_email \o <<" ", "2", "0", "2", "3", "0", "4", "3", "x">>,
    t_email \o <<" ", "2", "0", "2", "3", "0", "4">>,
    <<"x", " ", "a", "b", "c", "d", "@", "e", "f", "g", " ", "1">>,
    t_email,
    <<"2", "0", "2", "3", "0", "4", "1", "5">> }

\* The last-modified line of a block, when it has one.
LastModifiedSamples ==
  { <<>>,
    n_last_modified \o <<":", "\n">>,
    n_last_modified \o <<":", " ", "2", "0", "1", "7", "-", "1", "2", "-", "1", "2", "\n">> }

ChangedBlocks ==
  { s_inetnum \o <<" ", "1", ".", "2", ".", "3", ".", "0", "/", "2", "4", "\n">>
    \o lm \o n_changed \o <<":", " ">> \o c \o <<"\n">> :
      lm \in LastModifiedSamples, c \in ChangedSamples }

\* Values of the country and city lines of a block; <<>> for no such line.
CountrySamples == { <<>>, <<"N", "L">> }

CitySamples == { <<>>, <<"A", "m", "s", "t", "e", "r", "d", "a", "m">>, <<"N", "e", "w", " ", "Y", "o", "r", "k">> }

\* Blocks with these country and city lines, the city line before or after
\* the country line.
CountryBlocks ==
  { s_inetnum \o <<" ", "1", ".", "2", ".", "3", ".", "0", "/", "2", "4", "\n">> \o ls :
      ls \in UNION { { (IF co = <<>> THEN <<>> ELSE n_country \o <<":", " ">> \o co \o <<"\n">>)
                         \o (IF ci = <<>> THEN <<>> ELSE n_city \o <<":", " ">> \o ci \o <<"\n">>),
                       (IF ci = <<>> THEN <<>> ELSE n_city \o <<":", " ">> \o ci \o <<"\n">>)
                         \o (IF co = <<>> THEN <<>> ELSE n_country \o <<":", " ">> \o co \o <<"\n">>) } :
                     co \in CountrySamples, ci \in CitySamples } }

InitProperty ==
  /\ pp_block \in PropBlocks \cup ChangedBlocks \cup CountryBlocks
  /\ pp_name \in PropNames
  /\ pp_result = Pending
  /\ md_result = Pending
  /\ co_result = Pending
  /\ IdleInetnum
  /\ IdleSegment
  /\ IdlePipeline
  /\ IdleExtra

\* parse_property(block, name)
ParseProperty ==
  /\ pp_result = Pending
  /\ pp_result' = [kind |-> "returned", value |-> parse_property(pp_block, pp_name)]
  /\ UNCHANGED <<pp_block, pp_name, md_result, co_result>>
  /\ UNCHANGED <<inetnum_vars, segment_vars, pipeline_vars>>
  /\ UNCHANGED extra_vars

\* The last_modified rule of a worker, applied to the block.
ModifiedRule ==
  /\ md_result = Pending
  /\ md_result' =
       LET r == modified_rule(pp_block)
       IN IF r.raised THEN [kind |-> "raised"] ELSE [kind |-> "returned", value |-> r.value]
  /\ UNCHANGED <<pp_block, pp_name, pp_result, co_result>>
  /\ UNCHANGED <<inetnum_vars, segment_vars, pipeline_vars>>
  /\ UNCHANGED extra_vars

\* The country rule of a worker, applied to the block.
CountryRule ==
  /\ co_result = Pending
  /\ co_result' = [kind |-> "returned", value |-> country_rule(pp_block)]
  /\ UNCHANGED <<pp_block, pp_name, pp_result, md_result>>
  /\ UNCHANGED <<inetnum_vars, segment_vars, pipeline_vars>>
  /\ UNCHANGED extra_vars

NextProperty == ParseProperty \/ ModifiedRule \/ CountryRule

SpecProperty == InitProperty /\ [][NextProperty]_vars

(***************************************************************************)
(* SpecSegment: read_blocks reading one file line by line                  *)
(***************************************************************************)

\* The largest number of newline-terminated lines of a file of SpecSegment.
MaxFileLines == 5

\* The largest number of discarded lines (%, #, remarks:) of a file of
\* SpecSegment.
MaxDiscarded == 1

t_databases == <<".", "/", "d", "a", "t", "a", "b", "a", "s", "e", "s", "/">>

\* A dump of the file list, and a dump whose name matches no registry.
FilenameSamples ==
  { t_databases \o s_ripe \o <<".", "d", "b", ".", "g", "z">>,
    t_databases \o <<"u", "n", "k", "n", "o", "w", "n", ".", "d", "b">> }

\* The lines a file is made of: an address line, a description line, the
\* three kinds of discarded lines, a blank line and a line of another object
\* type.
FileLineSamples ==
  { s_inetnum \o <<" ", "1", "0", ".", "0", ".", "0", ".", "0", "/", "8", "\n">>,
    n_descr \o <<":", " ", "a", "\n">>,
    s_remarks \o <<" ", "r", "\n">>,
    <<"%", " ", "c", "\n">>,
    <<"#", "\n">>,
    <<"\n">>,
    <<"p", "e", "r", "s", "o", "n", ":", " ", "P", "\n">> }

\* A last line that does not end with a newline.
LastLineSamples == { n_descr \o <<":", " ", "z">> }

InitSegment ==
  /\ rb_filename \in FilenameSamples
  /\ rb_file = <<>>
  /\ rb_state = read_start
  /\ rb_pc = "reading"
  /\ IdleInetnum
  /\ IdleProperty
  /\ IdlePipeline
  /\ IdleExtra

\* for line in f: one iteration on a newline-terminated line.
ReadLine ==
  /\ rb_pc = "reading"
  /\ Len(rb_file) < MaxFileLines
  /\ \E line \in FileLineSamples :
       /\ IsComment(line) => Len(SelectSeq(rb_file, IsComment)) < MaxDiscarded
       /\ LET st == read_line(rb_state, line, get_source(BaseName(rb_filename)))
          IN /\ rb_file' = Append(rb_file, line)
             /\ rb_state' = st
             /\ rb_pc' = IF st.raised THEN "raised" ELSE "reading"
  /\ UNCHANGED rb_filename
  /\ UNCHANGED <<inetnum_vars, property_vars, pipeline_vars>>
  /\ UNCHANGED extra_vars

\* for line in f: the iteration on a last line without a newline, and the
\* return that follows it.
ReadLastLine ==
  /\ rb_pc = "reading"
  /\ \E line \in LastLineSamples :
       LET st == read_line(rb_state, line, get_source(BaseName(rb_filename)))
       IN /\ rb_file' = Append(rb_file, line)
          /\ rb_state' = st
          /\ rb_pc' = IF st.raised THEN "raised" ELSE "returned"
  /\ UNCHANGED rb_filename
  /\ UNCHANGED <<inetnum_vars, property_vars, pipeline_vars>>
  /\ UNCHANGED extra_vars

\* The end of the file after a newline-terminated line: return blocks.
EndOfFile ==
  /\ rb_pc = "reading"
  /\ rb_pc' = "returned"
  /\ UNCHANGED <<rb_filename, rb_file, rb_state>>
  /\ UNCHANGED <<inetnum_vars, property_vars, pipeline_vars>>
  /\ UNCHANGED extra_vars

NextSegment == ReadLine \/ ReadLastLine \/ EndOfFile

SpecSegment == InitSegment /\ [][NextSegment]_vars

(***************************************************************************)
(* Spec: runs of the script (main) with its workers                        *)
(***************************************************************************)

\* The number of worker processes (NUM_WORKERS = cpu_count()).
NUM_WORKERS == 2

\* The number of runs of the script.
MaxRuns == 2

\* The number of items the pipe of the queue holds before a write to it
\* blocks.
PipeCapacity == 2

l_blank == <<"\n">>

\* An address object with a range, a name and two description lines.
o_range ==
  << s_inetnum \o <<" ", "1", "0", ".", "0", ".", "0", ".", "0", " ", "-", " ",
                    "1", "0", ".", "0", ".", "1", ".", "2", "5", "5", "\n">>,
     n_netname \o <<":", " ", "A", "\n">>,
     l_blank >>

\* A route object.
o_route ==
  << s_route \o <<" ", "1", ".", "2", ".", "3", ".", "0", "/", "2", "4", "\n">>,
     n_origin \o <<":", " ", "A", "S", "1", "\n">>,
     l_blank >>

\* An address object whose address no pattern matches.
o_bad == << s_inetnum \o <<" ", "x", "\n">>, l_blank >>

\* An object of another type.
o_person == << <<"p", "e", "r", "s", "o", "n", ":", " ", "P", "\n">>, l_blank >>

Missing == [exists |-> FALSE, lines |-> <<>>]

File(lines) == [exists |-> TRUE, lines |-> lines]

\* The contents of ./databases the runs are checked on: for each entry of
\* FILELIST, absent or the lines of the file.
DiskSamples ==
  { [i \in 1..Len(FILELIST) |->
       IF i = 1 THEN File(o_bad \o o_route) ELSE Missing],
    [i \in 1..Len(FILELIST) |->
       IF i = 4 THEN File(o_person \o o_route \o o_bad \o o_range) ELSE Missing],
    [i \in 1..Len(FILELIST) |->
       IF i = 5 THEN File(o_route) ELSE IF i = 6 THEN File(o_bad) ELSE Missing],
    [i \in 1..Len(FILELIST) |->
       IF i = 2 THEN File(o_bad \o o_person \o o_bad \o o_bad)
       ELSE IF i = 3 THEN File(o_person) ELSE Missing] }

\* get_source(filename.split("/")[-1]) for the files main opens, computed once.
cust_source_table ==
  [f \in { t_databases \o FILELIST[i] : i \in 1..Len(FILELIST) } |-> get_source(BaseName(f))]

\* cust_source = get_source(filename.split("/")[-1])
cust_source_of(filename) ==
  IF filename \in DOMAIN cust_source_table THEN cust_source_table[filename]
  ELSE get_source(BaseName(filename))

\* The blocks read_blocks returns for the files of the samples.
SampleBlocks ==
  UNION { UNION { { read_blocks(FILELIST[i], d[i].lines).blocks[k] :
                      k \in 1..Len(read_blocks(FILELIST[i], d[i].lines).blocks) } :
                  i \in { j \in 1..Len(FILELIST) : d[j].exists } } :
          d \in DiskSamples }

\* parse_property_inetnum on each of these blocks, computed once.
inetnum_table == [b \in SampleBlocks |-> parse_property_inetnum(b)]

\* inetnum = parse_property_inetnum(block)
inetnum_of(block) ==
  IF block \in DOMAIN inetnum_table THEN inetnum_table[block]
  ELSE parse_property_inetnum(block)

\* One iteration of the loop of parse_blocks on a block: the worker after it
\* and the rows it commits in it.
parse_blocks_step(w, block, incr) ==
  parse_blocks_inetnum(w, block, incr, inetnum_of(block))

\* A row written by an earlier version of the script.
LegacyRow ==
  [ inetnum |-> <<"9", ".", "0", ".", "0", ".", "0", "/", "8">>,
    netname |-> None, description |-> None, country |-> None, maintained_by |-> None,
    created |-> None, last_modified |-> None, source |-> Str(s_ripe), status |-> None,
    import_date |-> 0 ]

Init ==
  /\ disk \in DiskSamples
  /\ table \in {<<>>, <<LegacyRow>>}
  /\ run_no = 1
  /\ incremental \in BOOLEAN
  /\ main_pc = "setup"
  /\ file_idx = 0
  /\ blocks = <<>>
  /\ put_idx = 0
  /\ join_idx = 0
  /\ jobs_buffer = <<>>
  /\ jobs_pipe = <<>>
  /\ workers = [w \in 1..NUM_WORKERS |-> worker_none]
  /\ run_modes = <<>>
  /\ run_rows = <<>>
  /\ IdleInetnum
  /\ IdleProperty
  /\ IdleSegment
  /\ IdleExtra

Others == <<inetnum_vars, property_vars>>

\* main, up to the file loop: the table is created, after being dropped in
\* full-refresh mode.
Setup ==
  /\ main_pc = "setup"
  /\ table' = setup_connection(table, TRUE, ~incremental)
  /\ run_modes' = Append(run_modes, incremental)
  /\ main_pc' = "files"
  /\ file_idx' = 1
  /\ UNCHANGED <<disk, run_no, incremental, blocks, put_idx, join_idx, jobs_buffer,
                 jobs_pipe, workers, run_rows>>
  /\ UNCHANGED segment_vars
  /\ UNCHANGED Others
  /\ UNCHANGED extra_vars

\* for entry in FILELIST: a file that does not exist is logged and skipped.
SkipMissingFile ==
  /\ main_pc = "files"
  /\ file_idx <= Len(FILELIST)
  /\ ~disk[file_idx].exists
  /\ file_idx' = file_idx + 1
  /\ UNCHANGED <<disk, table, run_no, incremental, main_pc, blocks, put_idx, join_idx,
                 jobs_buffer, jobs_pipe, workers, run_modes, run_rows>>
  /\ UNCHANGED segment_vars
  /\ UNCHANGED Others
  /\ UNCHANGED extra_vars

\* for entry in FILELIST: a file that exists is opened by read_blocks.
OpenFile ==
  /\ main_pc = "files"
  /\ file_idx <= Len(FILELIST)
  /\ disk[file_idx].exists
  /\ main_pc' = "reading"
  /\ rb_filename' = t_databases \o FILELIST[file_idx]
  /\ rb_file' = <<>>
  /\ rb_state' = read_start
  /\ rb_pc' = "reading"
  /\ UNCHANGED <<disk, table, run_no, incremental, file_idx, blocks, put_idx, join_idx,
                 jobs_buffer, jobs_pipe, workers, run_modes, run_rows>>
  /\ UNCHANGED Others
  /\ UNCHANGED extra_vars

\* read_blocks: one iteration of its loop, on the next line of the file. An
\* exception of read_blocks ends main.
ReadFileLine ==
  /\ main_pc = "reading"
  /\ Len(rb_file) < Len(disk[file_idx].lines)
  /\ rb_file' = Append(rb_file, disk[file_idx].lines[Len(rb_file) + 1])
  /\ rb_state' = read_line(rb_state, disk[file_idx].lines[Len(rb_file) + 1],
                           cust_source_of(rb_filename))
  /\ rb_pc' = IF rb_state'.raised THEN "raised" ELSE "reading"
  /\ main_pc' = IF rb_state'.raised THEN "crashed" ELSE "reading"
  /\ UNCHANGED rb_filename
  /\ UNCHANGED <<disk, table, run_no, incremental, file_idx, blocks, put_idx, join_idx,
                 jobs_buffer, jobs_pipe, workers, run_modes, run_rows>>
  /\ UNCHANGED Others
  /\ UNCHANGED extra_vars

\* read_blocks returns; main makes a new queue and starts the workers.
StartWorkers ==
  /\ main_pc = "reading"
  /\ Len(rb_file) = Len(disk[file_idx].lines)
  /\ rb_pc' = "returned"
  /\ main_pc' = "put"
  /\ blocks' = rb_state.blocks
  /\ put_idx' = 0
  /\ jobs_buffer' = <<>>
  /\ jobs_pipe' = <<>>
  /\ workers' = [w \in 1..NUM_WORKERS |-> worker_start(run_no)]
  /\ UNCHANGED <<rb_filename, rb_file, rb_state>>
  /\ UNCHANGED <<disk, table, run_no, incremental, file_idx, join_idx, run_modes, run_rows>>
  /\ UNCHANGED Others
  /\ UNCHANGED extra_vars

\* Put with the sentinels put before the blocks.
Put_sentinels_first ==
  /\ main_pc = "put"
  /\ put_idx < Len(blocks) + NUM_WORKERS
  /\ jobs_buffer' = Append(jobs_buffer,
                           IF put_idx < NUM_WORKERS THEN None
                           ELSE Str(blocks[put_idx - NUM_WORKERS + 1]))
  /\ put_idx' = put_idx + 1
  /\ UNCHANGED <<disk, table, run_no, incremental, main_pc, file_idx, blocks, join_idx,
                 jobs_pipe, workers, run_modes, run_rows>>
  /\ UNCHANGED segment_vars
  /\ UNCHANGED Others
  /\ UNCHANGED extra_vars

\* jobs.put(b) for the next block, then jobs.put(None) once per worker.
Put ==
  /\ main_pc = "put"
  /\ put_idx < Len(blocks) + NUM_WORKERS
  /\ jobs_buffer' = Append(jobs_buffer,
                           IF put_idx < Len(blocks) THEN Str(blocks[put_idx + 1]) ELSE None)
  /\ put_idx' = put_idx + 1
  /\ UNCHANGED <<disk, table, run_no, incremental, main_pc, file_idx, blocks, join_idx,
                 jobs_pipe, workers, run_modes, run_rows>>
  /\ UNCHANGED segment_vars
  /\ UNCHANGED Others
  /\ UNCHANGED extra_vars

\* The feeder thread of the queue writes the next buffered item to the pipe.
Feed ==
  /\ jobs_buffer # <<>>
  /\ Len(jobs_pipe) < PipeCapacity
  /\ jobs_pipe' = Append(jobs_pipe, Head(jobs_buffer))
  /\ jobs_buffer' = Tail(jobs_buffer)
  /\ UNCHANGED <<disk, table, run_no, incremental, main_pc, file_idx, blocks, put_idx,
                 join_idx, workers, run_modes, run_rows>>
  /\ UNCHANGED segment_vars
  /\ UNCHANGED Others
  /\ UNCHANGED extra_vars

\* jobs.close(); jobs.join_thread(): returns once the buffer is flushed.
JoinThread ==
  /\ main_pc = "put"
  /\ put_idx = Len(blocks) + NUM_WORKERS
  /\ jobs_buffer = <<>>
  /\ main_pc' = "join"
  /\ join_idx' = 1
  /\ UNCHANGED <<disk, table, run_no, incremental, file_idx, blocks, put_idx,
                 jobs_buffer, jobs_pipe, workers, run_modes, run_rows>>
  /\ UNCHANGED segment_vars
  /\ UNCHANGED Others
  /\ UNCHANGED extra_vars

\* Join where p.join() returns only for a worker that ended on its sentinel.
Join_only_exited ==
  /\ main_pc = "join"
  /\ workers[join_idx].pc = "exited"
  /\ IF join_idx < NUM_WORKERS
     THEN /\ join_idx' = join_idx + 1
          /\ UNCHANGED <<main_pc, file_idx>>
     ELSE /\ main_pc' = "files"
          /\ file_idx' = file_idx + 1
          /\ UNCHANGED join_idx
  /\ UNCHANGED <<disk, table, run_no, incremental, blocks, put_idx, jobs_buffer,
                 jobs_pipe, workers, run_modes, run_rows>>
  /\ UNCHANGED segment_vars
  /\ UNCHANGED Others
  /\ UNCHANGED extra_vars

\* p.join() for the next worker: returns once the process has ended. After
\* the last join main goes to the next entry of FILELIST.
Join ==
  /\ main_pc = "join"
  /\ workers[join_idx].pc \in {"exited", "failed"}
  /\ IF join_idx < NUM_WORKERS
     THEN /\ join_idx' = join_idx + 1
          /\ UNCHANGED <<main_pc, file_idx>>
     ELSE /\ main_pc' = "files"
          /\ file_idx' = file_idx + 1
          /\ UNCHANGED join_idx
  /\ UNCHANGED <<disk, table, run_no, incremental, blocks, put_idx, jobs_buffer,
                 jobs_pipe, workers, run_modes, run_rows>>
  /\ UNCHANGED segment_vars
  /\ UNCHANGED Others
  /\ UNCHANGED extra_vars

\* The end of the file loop: the script finishes.
Finish ==
  /\ main_pc = "files"
  /\ file_idx > Len(FILELIST)
  /\ main_pc' = "finished"
  /\ run_rows' = Append(run_rows, Len(table))
  /\ UNCHANGED <<disk, table, run_no, incremental, file_idx, blocks, put_idx, join_idx,
                 jobs_buffer, jobs_pipe, workers, run_modes>>
  /\ UNCHANGED segment_vars
  /\ UNCHANGED Others
  /\ UNCHANGED extra_vars

\* The script is run again, in either mode, on the same files.
Rerun ==
  /\ main_pc = "finished"
  /\ run_no < MaxRuns
  /\ run_no' = run_no + 1
  /\ incremental' \in BOOLEAN
  /\ main_pc' = "setup"
  /\ UNCHANGED <<disk, table, file_idx, blocks, put_idx, join_idx, jobs_buffer,
                 jobs_pipe, workers, run_modes, run_rows>>
  /\ UNCHANGED segment_vars
  /\ UNCHANGED Others
  /\ UNCHANGED extra_vars

\* WorkerGet where a get takes two items off the queue and handles the first.
WorkerGet_takes_two(w) ==
  /\ workers[w].pc = "running"
  /\ jobs_pipe # <<>>
  /\ jobs_pipe' = IF Len(jobs_pipe) > 1 THEN Tail(Tail(jobs_pipe)) ELSE Tail(jobs_pipe)
  /\ IF Head(jobs_pipe) = None
     THEN /\ table' = commit(table, workers[w].pending, incremental)
          /\ workers' = [workers EXCEPT ![w].pc = "exited", ![w].pending = <<>>,
                                            ![w].session = "closed"]
     ELSE \E r \in {parse_blocks_step(workers[w], Head(jobs_pipe).v, incremental)} :
            /\ table' = commit(table, r.commits, incremental)
            /\ workers' = [workers EXCEPT ![w] = r.worker]
  /\ UNCHANGED <<disk, run_no, incremental, main_pc, file_idx, blocks, put_idx, join_idx,
                 jobs_buffer, run_modes, run_rows>>
  /\ UNCHANGED segment_vars
  /\ UNCHANGED Others
  /\ UNCHANGED extra_vars
\* WorkerGet where the loop does not end on the sentinel.
WorkerGet_ignores_sentinel(w) ==
  /\ workers[w].pc = "running"
  /\ jobs_pipe # <<>>
  /\ jobs_pipe' = Tail(jobs_pipe)
  /\ IF Head(jobs_pipe) = None
     THEN /\ table' = commit(table, workers[w].pending, incremental)
          /\ workers' = [workers EXCEPT ![w].pending = <<>>]
     ELSE \E r \in {parse_blocks_step(workers[w], Head(jobs_pipe).v, incremental)} :
            /\ table' = commit(table, r.commits, incremental)
            /\ workers' = [workers EXCEPT ![w] = r.worker]
  /\ UNCHANGED <<disk, run_no, incremental, main_pc, file_idx, blocks, put_idx, join_idx,
                 jobs_buffer, run_modes, run_rows>>
  /\ UNCHANGED segment_vars
  /\ UNCHANGED Others
  /\ UNCHANGED extra_vars
\* WorkerGet where the worker ends on the sentinel without session.close().
WorkerGet_exit_without_close(w) ==
  /\ workers[w].pc = "running"
  /\ jobs_pipe # <<>>
  /\ jobs_pipe' = Tail(jobs_pipe)
  /\ IF Head(jobs_pipe) = None
     THEN /\ table' = commit(table, workers[w].pending, incremental)
          /\ workers' = [workers EXCEPT ![w].pc = "exited", ![w].pending = <<>>]
     ELSE \E r \in {parse_blocks_step(workers[w], Head(jobs_pipe).v, incremental)} :
            /\ table' = commit(table, r.commits, incremental)
            /\ workers' = [workers EXCEPT ![w] = r.worker]
  /\ UNCHANGED <<disk, run_no, incremental, main_pc, file_idx, blocks, put_idx, join_idx,
                 jobs_buffer, run_modes, run_rows>>
  /\ UNCHANGED segment_vars
  /\ UNCHANGED Others
  /\ UNCHANGED extra_vars

\* Worker w: block = jobs.get() and the iteration on it; on the sentinel, the
\* last commit, session.close() and the end of the process.
WorkerGet(w) ==
  /\ workers[w].pc = "running"
  /\ jobs_pipe # <<>>
  /\ jobs_pipe' = Tail(jobs_pipe)
  /\ IF Head(jobs_pipe) = None
     THEN /\ table' = commit(table, workers[w].pending, incremental)
          /\ workers' = [workers EXCEPT ![w].pc = "exited", ![w].pending = <<>>,
                                            ![w].session = "closed"]
     ELSE \E r \in {parse_blocks_step(workers[w], Head(jobs_pipe).v, incremental)} :
            /\ table' = commit(table, r.commits, incremental)
            /\ workers' = [workers EXCEPT ![w] = r.worker]
  /\ UNCHANGED <<disk, run_no, incremental, main_pc, file_idx, blocks, put_idx, join_idx,
                 jobs_buffer, run_modes, run_rows>>
  /\ UNCHANGED segment_vars
  /\ UNCHANGED Others
  /\ UNCHANGED extra_vars

Next ==
  \/ Setup
  \/ SkipMissingFile
  \/ OpenFile
  \/ ReadFileLine
  \/ StartWorkers
  \/ Put
  \/ Feed
  \/ JoinThread
  \/ Join
  \/ Finish
  \/ Rerun
  \/ \E w \in 1..NUM_WORKERS : WorkerGet(w)

Spec == Init /\ [][Next]_vars

\* A step of main, of the feeder thread of the queue or of a worker. Running
\* the script again is left to its user.
ProcessStep ==
  \/ Setup
  \/ SkipMissingFile
  \/ OpenFile
  \/ ReadFileLine
  \/ StartWorkers
  \/ Put
  \/ Feed
  \/ JoinThread
  \/ Join
  \/ Finish
  \/ \E w \in 1..NUM_WORKERS : WorkerGet(w)

\* The scheduler does not stop while a process is able to step.
Fairness == WF_vars(ProcessStep)

FairSpec == Spec /\ Fairness

(***************************************************************************)
(* SpecStore: upsert_block applied to a table                              *)
(***************************************************************************)

\* The number of rows of the tables the writes are made on.
MaxRows == 2

p_ten == <<"1", "0", ".", "0", ".", "0", ".", "0", "/", "8">>

p_route == <<"1", ".", "2", ".", "3", ".", "0", "/", "2", "4">>

\* Field values of two extractions of the same object.
FieldSamples == { <<"A">>, <<"B">> }

\* block_data of a worker: a key, and the other fields as one extraction gave
\* them; import_date is the time of the run.
StoreRow(prefix, source, value, run) ==
  [ inetnum |-> prefix, netname |-> Str(value), description |-> Str(value),
    country |-> Str(value), maintained_by |-> Str(value), created |-> Str(value),
    last_modified |-> Str(value), source |-> Str(source), status |-> Str(value),
    import_date |-> run ]

StoreRows ==
  { StoreRow(p, s, v, r) :
      p \in {p_ten, p_route}, s \in {s_ripe, s_arin}, v \in FieldSamples, r \in {1, 2} }

\* The (inetnum, source) of a row.
RowKey(row) == <<row.inetnum, row.source>>

\* Tables of rows with distinct keys.
TableSamples ==
  { tbl \in UNION { [1..n -> StoreRows] : n \in 0..MaxRows } :
      \A i \in DOMAIN tbl : \A j \in DOMAIN tbl : RowKey(tbl[i]) = RowKey(tbl[j]) => i = j }

InitStore ==
  /\ st_table \in TableSamples
  /\ st_data = <<>>
  /\ st_result = "none"
  /\ IdleInetnum
  /\ IdleProperty
  /\ IdleSegment
  /\ IdlePipeline
  /\ IdleSource
  /\ IdleRate

\* upsert_block(session, block_data) and the commit of the session.
UpsertBlock ==
  /\ \E data \in StoreRows :
       /\ st_data' = data
       /\ st_table' = upsert_block(st_table, data).table
       /\ st_result' = IF upsert_block(st_table, data).raised THEN "raised" ELSE "done"
  /\ UNCHANGED <<inetnum_vars, property_vars, segment_vars, pipeline_vars, source_vars, rate_vars>>

NextStore == UpsertBlock

SpecStore == InitStore /\ [][NextStore]_vars

(***************************************************************************)
(* SpecSource: get_source applied to one filename                          *)
(***************************************************************************)

\* The largest number of parts a filename of SpecSource is made of.
MaxNameParts == 2

\* The parts filenames are made of: the five registry words and two others.
NamePartSamples ==
  { s_afrinic, s_apnic, s_arin, s_lacnic, s_ripe, <<"x">>, <<".", "d", "b">> }

\* Filenames: up to MaxNameParts parts, one after the other.
NameSamples ==
  { Concat(parts) : parts \in UNION { [1..n -> NamePartSamples] : n \in 0..MaxNameParts } }

InitSource ==
  /\ gs_filename \in NameSamples
  /\ gs_result = Pending
  /\ IdleInetnum
  /\ IdleProperty
  /\ IdleSegment
  /\ IdlePipeline
  /\ IdleStore
  /\ IdleRate

\* cust_source = get_source(filename)
GetSource ==
  /\ gs_result = Pending
  /\ gs_result' = get_source(gs_filename)
  /\ UNCHANGED gs_filename
  /\ UNCHANGED <<inetnum_vars, property_vars, segment_vars, pipeline_vars, store_vars, rate_vars>>

NextSource == GetSource

SpecSource == InitSource /\ [][NextSource]_vars

(***************************************************************************)
(* SpecRate: requests to the web server over time                          *)
(***************************************************************************)

\* RATE_LIMIT_REQUESTS and RATE_LIMIT_WINDOW of the server checked.
RATE_LIMIT_REQUESTS == 2

RATE_LIMIT_WINDOW == 2

\* The last value of the clock, in seconds.
MaxTime == 3

\* The first entry of X-Forwarded-For of a request ("" when the header is
\* absent or empty) and the host of its peer ("" when request.client is None).
ForwardedSamples == { "", "a" }

HostSamples == { "" }

ClientIds == { "a", "unknown" }

InitRate ==
  /\ rl_now = 0
  /\ rl_requests = [c \in ClientIds |-> <<>>]
  /\ rl_accepted = [c \in ClientIds |-> <<>>]
  /\ rl_last = [kind |-> "none"]
  /\ IdleInetnum
  /\ IdleProperty
  /\ IdleSegment
  /\ IdlePipeline
  /\ IdleStore
  /\ IdleSource

\* Time passes; time.time() does not go back.
Tick ==
  /\ rl_now < MaxTime
  /\ rl_now' = rl_now + 1
  /\ rl_last' = [kind |-> "tick"]
  /\ UNCHANGED <<rl_requests, rl_accepted>>
  /\ UNCHANGED <<inetnum_vars, property_vars, segment_vars, pipeline_vars, store_vars,
                 source_vars>>

\* rate_limit_middleware on a request whose path starts with /api/: 429 when
\* is_allowed refuses it, else the response of the endpoint.
ApiRequest ==
  /\ \E forwarded \in ForwardedSamples : \E host \in HostSamples :
       \E r \in { is_allowed(rl_requests[client_ip(forwarded, host)], rl_now,
                             RATE_LIMIT_REQUESTS, RATE_LIMIT_WINDOW) } :
         /\ rl_requests' = [rl_requests EXCEPT ![client_ip(forwarded, host)] = r.stamps]
         /\ rl_accepted' =
              IF r.allowed
              THEN [rl_accepted EXCEPT ![client_ip(forwarded, host)] = Append(@, rl_now)]
              ELSE rl_accepted
         /\ rl_last' = [kind |-> "api", client |-> client_ip(forwarded, host),
                        status |-> IF r.allowed THEN 200 ELSE 429]
  /\ UNCHANGED rl_now
  /\ UNCHANGED <<inetnum_vars, property_vars, segment_vars, pipeline_vars, store_vars,
                 source_vars>>

\* rate_limit_middleware on any other request: passed on without a check.
OtherRequest ==
  /\ \E forwarded \in ForwardedSamples : \E host \in HostSamples :
       rl_last' = [kind |-> "other", client |-> client_ip(forwarded, host), status |-> 200]
  /\ UNCHANGED <<rl_now, rl_requests, rl_accepted>>
  /\ UNCHANGED <<inetnum_vars, property_vars, segment_vars, pipeline_vars, store_vars,
                 source_vars>>

NextRate == Tick \/ ApiRequest \/ OtherRequest

SpecRate == InitRate /\ [][NextRate]_vars

(***************************************************************************)
(* Claims about SpecInetnum                                                *)
(***************************************************************************)

\* net is a block of the address space: its prefix length is in 0..32 and the
\* host bits of its first address are zero.
Aligned(net) ==
  /\ net[2] \in 0..width
  /\ net[1] % (2 ^ (width - net[2])) = 0

\* No aligned block twice the size of net lies within [s, e]: net is one of
\* the maximal blocks of the range. The maximal blocks of a range are
\* disjoint and every aligned block within the range lies in one of them, so
\* a cover made of maximal blocks has the least possible number of blocks.
MaximalIn(net, s, e) ==
  \/ net[2] = 0
  \/ LET half == 2 ^ (width - net[2])
         first == IF (net[1] \div half) % 2 = 0 THEN net[1] ELSE net[1] - half
     IN first < s \/ first + half + (half - 1) > e

\* cidrs covers exactly [s, e], in ascending order without gap or overlap.
CoversExactly(cidrs, s, e) ==
  /\ Len(cidrs) >= 1
  /\ cidrs[1][1] = s
  /\ NetLast(cidrs[Len(cidrs)]) = e
  /\ \A i \in 1..(Len(cidrs) - 1) : cidrs[i + 1][1] = NetLast(cidrs[i]) + 1

\* C1: for a range line with valid dotted quads and start <= end,
\* parse_property_inetnum returns a list of aligned prefixes that covers
\* exactly [start, end] without overlap or gap, each prefix being a maximal
\* block of the range (hence the least possible number of prefixes).
C1_RangeMinimalCover ==
  (in_case.form = "range" /\ in_result # Pending) =>
    /\ in_result.kind = "list"
    /\ CoversExactly(in_result.cidrs, QuadValue(in_case.a), QuadValue(in_case.b))
    /\ \A i \in 1..Len(in_result.cidrs) :
         /\ Aligned(in_result.cidrs[i])
         /\ MaximalIn(in_result.cidrs[i], QuadValue(in_case.a), QuadValue(in_case.b))

\* C1 witness: 10.168.0.0 - 10.168.255.255 has been normalized to the single
\* prefix 10.168.0.0/16.
C1_Witness ==
  /\ in_case.form = "range"
  /\ in_case.a = <<10, 168, 0, 0>>
  /\ in_case.b = <<10, 168, 255, 255>>
  /\ in_result.kind = "list"
  /\ in_result.cidrs = <<<<QuadValue(<<10, 168, 0, 0>>), 16>>>>

\* C12: a three-octet shorthand a.b.c/m is normalized to a.b.c.0/m and a
\* two-octet shorthand a.b/m to a.b.0.0/m, the octets and the prefix length
\* as written.
C12_ShorthandFilled ==
  (in_case.form = "short" /\ in_result # Pending) =>
    /\ in_result.kind = "bytes"
    /\ in_result.text =
         in_case.a[1] \o <<".">> \o in_case.a[2] \o <<".">>
         \o (IF Len(in_case.a) = 3 THEN in_case.a[3] ELSE <<"0">>)
         \o <<".", "0", "/">> \o in_case.b

\* C12 witness: 177.46.7/24 has given 177.46.7.0/24.
C12_Witness ==
  /\ in_case.form = "short"
  /\ in_case.a = <<<<"1", "7", "7">>, <<"4", "6">>, <<"7">>>>
  /\ in_result.kind = "bytes"
  /\ in_result.text = <<"1", "7", "7", ".", "4", "6", ".", "7", ".", "0", "/", "2", "4">>

\* C13: for a block whose address line is inetnum:, inet6num:, route: or
\* route6: followed by a prefix written in full, parse_property_inetnum
\* returns the prefix as written.
C13_PrefixAsWritten ==
  (in_case.form = "prefix" /\ in_result # Pending) =>
    /\ in_result.kind = "bytes"
    /\ in_result.text = in_case.b

\* C13 witness: the 43-character IPv6 prefix of a route6 line has been
\* returned whole.
C13_Witness ==
  /\ in_case.form = "prefix"
  /\ in_case.a = s_route6
  /\ Len(in_case.b) = 43
  /\ in_result.kind = "bytes"
  /\ Len(in_result.text) = 43

\* What each of the seven patterns gives for its line of EncodingLines: the
\* one network of the range, or the prefix as bytes.
EncodingResults ==
  << [kind |-> "list", cidrs |-> << <<QuadValue(<<10, 0, 0, 0>>), 24>> >>],
     [kind |-> "bytes", text |-> <<"8", ".", "8", ".", "8", ".", "0", "/", "2", "4">>],
     [kind |-> "bytes", text |-> <<"1", "7", "7", ".", "4", "6", ".", "7", ".", "0", "/", "2", "4">>],
     [kind |-> "bytes", text |-> <<"1", "4", "8", ".", "2", "0", "4", ".", "0", ".", "0", "/", "1", "6">>],
     [kind |-> "bytes", text |-> <<"2", "0", "0", "1", ":", "d", "b", "8", ":", ":", "/", "3", "2">>],
     [kind |-> "bytes", text |-> <<"1", "9", "2", ".", "1", "6", "8", ".", "1", ".", "0", "/", "2", "4">>],
     [kind |-> "bytes", text |-> <<"2", "a", "0", "0", ":", "1", "4", "5", "0", ":", ":", "/", "2", "9">>] >>

\* The smaller of two numbers.
Earlier(a, b) == IF a < b THEN a ELSE b

\* C22: the seven patterns are tried in the order range, full prefix, three
\* octets, two octets, inet6num, route, route6, and the first pattern that
\* matches a line of the block gives the result: for a block with lines of
\* two patterns, the result is that of the earlier pattern, whichever of the
\* two lines comes first in the block.
C22_EarliestEncodingWins ==
  (in_case.form = "pair" /\ in_result # Pending) =>
    in_result = EncodingResults[Earlier(in_case.a, in_case.b)]

\* C22 witness: a block whose first line is a route6 line and whose second
\* line is a range line has given the network of the range.
C22_Witness ==
  /\ in_case.form = "pair"
  /\ in_case.a = 7
  /\ in_case.b = 1
  /\ in_result = EncodingResults[1]

\* The numbers of the dot-separated parts of a text.
OctetsOf(text) == [k \in 1..Len(SplitOn(text, ".")) |-> ParseDec(SplitOn(text, ".")[k])]

\* The bits of an address, given as four octets, beyond a prefix length are
\* zero.
HostBitsZero(o, mask) ==
  IF mask >= 8
  THEN ((o[2] * 256 + o[3]) * 256 + o[4]) % (2 ^ (32 - mask)) = 0
  ELSE o[2] = 0 /\ o[3] = 0 /\ o[4] = 0 /\ o[1] % (2 ^ (8 - mask)) = 0

\* text is <a>.<b>.<c>.<d>/<mask> with every octet in 0..255, the mask in
\* 0..32 and no bit set beyond the mask.
WellFormedCidr4(text) ==
  /\ Len(SplitOn(text, "/")) = 2
  /\ Len(OctetsOf(SplitOn(text, "/")[1])) = 4
  /\ \A k \in 1..4 : OctetsOf(SplitOn(text, "/")[1])[k] \in 0..255
  /\ ParseDec(SplitOn(text, "/")[2]) \in 0..32
  /\ HostBitsZero(OctetsOf(SplitOn(text, "/")[1]), ParseDec(SplitOn(text, "/")[2]))

\* C26: parse_property_inetnum raises nothing, and every IPv4 prefix it
\* returns is well formed: octets in 0..255, prefix length in 0..32, no bit
\* set beyond the prefix length. An address line that matches a pattern but
\* is not well formed gives no prefix.
C26_PrefixWellFormed ==
  in_result # Pending =>
    /\ in_result.kind # "raise"
    /\ (in_result.kind = "bytes" /\ ~Contains(in_result.text, <<":">>))
         => WellFormedCidr4(in_result.text)

(***************************************************************************)
(* Claims about SpecProperty                                               *)
(***************************************************************************)

\* The lines of a block, without their newlines.
BlockLines(block) == SplitOn(block, "\n")

\* The text after "<name>:" of every line of the block that begins with
\* "<name>:", in block order.
FieldValues(block, name) ==
  LET ls == SelectSeq(BlockLines(block), LAMBDA l : StartsWith(l, name \o <<":">>))
  IN [k \in 1..Len(ls) |-> Slice(ls[k], Len(name) + 2, Len(ls[k]))]

\* The values stripped, joined with one space, whitespace runs collapsed.
JoinedValues(block, name) == JoinSpace(SplitWs(JoinSpace(FieldValues(block, name))))

\* The value of the changed line of a block that has exactly one.
ChangedValue(block) == Strip(FieldValues(block, n_changed)[1])

\* The number of days of a month of the Gregorian calendar.
DaysInMonth(year, month) ==
  IF month \in {4, 6, 9, 11} THEN 30
  ELSE IF month = 2
  THEN IF year % 4 = 0 /\ (year % 100 # 0 \/ year % 400 = 0) THEN 29 ELSE 28
  ELSE 31

\* c is <email> <8 digits> and the 8 digits name a day that does not exist.
NoSuchDay(c) ==
  LET toks == SplitOn(c, " ")
  IN /\ Len(toks) = 2
     /\ Contains(toks[1], <<"@">>)
     /\ Len(toks[2]) = 8 /\ AllDigits(toks[2])
     /\ LET year == ParseDec(SubSeq(toks[2], 1, 4))
            month == ParseDec(SubSeq(toks[2], 5, 6))
            day == ParseDec(SubSeq(toks[2], 7, 8))
        IN ~(month \in 1..12 /\ day \in 1..DaysInMonth(year, month))

\* The block has a changed line and no last-modified line.
ChangedOnly(block) ==
  /\ Len(FieldValues(block, n_changed)) = 1
  /\ Len(FieldValues(block, n_last_modified)) = 0

\* C4: a changed value <email> <8 digits> whose date is a day that does not
\* exist (admin@example.com 20230431) leaves the modified date absent and
\* raises nothing, when the block has no last-modified line.
C4_NoSuchDayAbsent ==
  (md_result # Pending /\ ChangedOnly(pp_block) /\ NoSuchDay(ChangedValue(pp_block))) =>
    (md_result.kind = "returned" /\ md_result.value = None)

\* C5: whatever the changed value, the last_modified rule returns (a value or
\* absence); it never raises.
C5_ModifiedNeverRaises ==
  md_result # Pending => md_result.kind = "returned"

\* C10: parse_property returns the values of the lines of the requested
\* field, stripped, joined with one space and with whitespace runs collapsed,
\* and returns None when the block has no line of that field.
C10_JoinedFieldValues ==
  pp_result # Pending =>
    /\ Len(FieldValues(pp_block, pp_name)) = 0 => pp_result.value = None
    /\ pp_result.value # None => pp_result.value = Str(JoinedValues(pp_block, pp_name))
    /\ JoinedValues(pp_block, pp_name) # <<>> => pp_result.value # None

\* The words (maximal runs of non-whitespace characters) of a text.
Words(text) == { SplitWs(text)[k] : k \in 1..Len(SplitWs(text)) }

\* The lines of the block that begin with "<name>:".
OwnLines(block, name) ==
  { BlockLines(block)[k] : k \in { j \in 1..Len(BlockLines(block)) :
                                     StartsWith(BlockLines(block)[j], name \o <<":">>) } }

\* The words of these lines and of their values (the text after "<name>:").
OwnWords(block, name) ==
  UNION { Words(l) \cup Words(Slice(l, Len(name) + 2, Len(l))) : l \in OwnLines(block, name) }

\* C24: the value parse_property returns for a field holds no text of a line
\* of another field: every word of it is a word of a line of the requested
\* field, also when such a line has an empty value.
C24_NoTextOfOtherFields ==
  (pp_result # Pending /\ pp_result.value # None) =>
    Words(pp_result.value.v) \subseteq OwnWords(pp_block, pp_name)

\* The stripped value of the one line of the block that begins with "<name>:".
OneValue(block, name) == Strip(FieldValues(block, name)[1])

\* C30: the country of a record is made of the block's own values only:
\* absent when the block has neither a country nor a city line, <country>
\* when it has a country line only, <country> - <city> when it has both, and
\* with a city line and no country line it holds no word that stands for the
\* missing country.
C30_CountryFromBlockOnly ==
  (co_result # Pending /\ pp_block \in CountryBlocks) =>
    /\ (Len(FieldValues(pp_block, n_country)) = 0 /\ Len(FieldValues(pp_block, n_city)) = 0)
         => co_result.value = None
    /\ (Len(FieldValues(pp_block, n_country)) = 1 /\ Len(FieldValues(pp_block, n_city)) = 0)
         => co_result.value = Str(OneValue(pp_block, n_country))
    /\ (Len(FieldValues(pp_block, n_country)) = 1 /\ Len(FieldValues(pp_block, n_city)) = 1)
         => co_result.value = Str(OneValue(pp_block, n_country) \o <<" ", "-", " ">>
                                    \o OneValue(pp_block, n_city))
    /\ (Len(FieldValues(pp_block, n_country)) = 0 /\ Len(FieldValues(pp_block, n_city)) = 1)
         => \/ co_result.value = None
            \/ Words(co_result.value.v) \subseteq Words(OneValue(pp_block, n_city)) \cup {<<"-">>}

(***************************************************************************)
(* Claims about SpecSegment                                                *)
(***************************************************************************)

\* A line that begins with %, # or remarks:.
DiscardedLine(l) ==
  \/ l # <<>> /\ l[1] \in {"%", "#"}
  \/ Len(l) >= 8 /\ SubSeq(l, 1, 8) = <<"r", "e", "m", "a", "r", "k", "s", ":">>

\* The lines of the file that are not discarded, in file order.
KeptLines(file) == SelectSeq(file, LAMBDA l : ~DiscardedLine(l))

\* The runs of kept lines of the file that a blank line ends: for each blank
\* kept line, the kept lines between it and the blank line before it.
EndedRuns(file) ==
  LET kept == KeptLines(file)
      blanks == {i \in 1..Len(kept) : Strip(kept[i]) = <<>>}
      prev(i) == Max({0} \cup {j \in blanks : j < i})
  IN { Slice(kept, prev(i) + 1, i - 1) : i \in blanks } \ {<<>>}

\* The first line of the run begins with one of the four object types.
RecognisedRun(run) ==
  \E ty \in {s_inetnum, s_inet6num, s_route, s_route6} : StartsWith(run[1], ty)

\* C8: read_blocks emits a block only for a run of kept lines whose first line
\* begins with inetnum:, inet6num:, route: or route6:; the block is that run
\* followed by the cust_source line.
C8_OnlyRecognisedEmitted ==
  \A k \in 1..Len(rb_state.blocks) :
    \E run \in EndedRuns(rb_file) :
      /\ RecognisedRun(run)
      /\ StartsWith(rb_state.blocks[k], Concat(run) \o s_cust_source)

\* C8 witness: the file held an object of another type and an address
\* object, both ended by a blank line, and exactly one block was emitted.
C8_Witness ==
  /\ rb_pc = "returned"
  /\ Cardinality(EndedRuns(rb_file)) = 2
  /\ \E run \in EndedRuns(rb_file) : ~RecognisedRun(run)
  /\ Len(rb_state.blocks) = 1

\* C9: no emitted block holds a line that begins with %, # or remarks:, and
\* discarding such a line does not end the block: the loop is in the state it
\* would be in had the file not held the discarded lines.
C9_DiscardedLinesVanish ==
  /\ \A k \in 1..Len(rb_state.blocks) :
       \A l \in 1..Len(BlockLines(rb_state.blocks[k])) :
         ~DiscardedLine(BlockLines(rb_state.blocks[k])[l])
  /\ rb_state = read_blocks(rb_filename, KeptLines(rb_file))

\* C9 witness: an emitted block whose two descr lines were separated by a
\* remarks line in the file; its description is the two values joined.
C9_Witness ==
  /\ Len(rb_state.blocks) = 1
  /\ \E i \in 2..(Len(rb_file) - 1) :
       /\ StartsWith(rb_file[i], s_remarks)
       /\ StartsWith(rb_file[i - 1], n_descr)
       /\ StartsWith(rb_file[i + 1], n_descr)
  /\ parse_property(rb_state.blocks[1], n_descr) = Str(<<"a", " ", "a">>)

\* C7: a file whose name matches no registry is read without error, and its
\* blocks carry a cust_source line with the literal marker.
C7_UnknownSourceKept ==
  get_source(BaseName(rb_filename)) = None =>
    /\ rb_pc # "raised"
    /\ \A k \in 1..Len(rb_state.blocks) :
         Truthy(parse_property(rb_state.blocks[k], s_cust_source))

\* The positions in a sequence of kept lines at which a maximal run of
\* non-blank lines begins with a line of one of the four object types.
RecognisedStarts(kept) ==
  { i \in 1..Len(kept) :
      /\ Strip(kept[i]) # <<>>
      /\ i = 1 \/ Strip(kept[i - 1]) = <<>>
      /\ \E ty \in {s_inetnum, s_inet6num, s_route, s_route6} : StartsWith(kept[i], ty) }

\* C25: read_blocks returns one block for every maximal run of kept lines
\* whose first line begins with one of the four object types, the run that
\* the end of the file ends included.
C25_EveryObjectEmittedOnce ==
  rb_pc = "returned" =>
    Len(rb_state.blocks) = Cardinality(RecognisedStarts(KeptLines(rb_file)))

(***************************************************************************)
(* Claims about Spec                                                       *)
(***************************************************************************)

\* The prefixes parse_property_inetnum gives for a block, as the text of the
\* inetnum column.
BlockPrefixes(block) ==
  IF parse_property_inetnum(block).kind = "list"
  THEN {FormatCidr(parse_property_inetnum(block).cidrs[k]) :
          k \in 1..Len(parse_property_inetnum(block).cidrs)}
  ELSE IF parse_property_inetnum(block).kind = "bytes"
  THEN {parse_property_inetnum(block).text}
  ELSE {}

\* The (address prefix, source registry) pairs of the address objects of one
\* file of FILELIST.
FilePairs(name, lines) ==
  UNION { {<<p, get_source(name)>> : p \in BlockPrefixes(read_blocks(name, lines).blocks[k])} :
            k \in 1..Len(read_blocks(name, lines).blocks) }

\* The (address prefix, source registry) pairs of the input.
InputPairs ==
  UNION { FilePairs(FILELIST[i], disk[i].lines) :
            i \in {j \in 1..Len(FILELIST) : disk[j].exists} }

\* The rows of the table with a pair as their key.
RowsOf(pair) ==
  {i \in 1..Len(table) : table[i].inetnum = pair[1] /\ table[i].source = pair[2]}

\* Two runs have finished, both in the given mode.
TwoRunsDone(mode) ==
  /\ main_pc = "finished"
  /\ run_modes = <<mode, mode>>

\* C2: after two incremental runs over the same input the table holds exactly
\* one row for each (address prefix, source registry) pair of the input, the
\* row holds the values the second run extracted, and the second run added no
\* rows.
C2_IncrementalOneRowPerPair ==
  TwoRunsDone(TRUE) =>
    /\ \A pair \in InputPairs :
         /\ Cardinality(RowsOf(pair)) = 1
         /\ \A i \in RowsOf(pair) : table[i].import_date = 2
    /\ run_rows[2] = run_rows[1]

\* C3: a full-refresh run starts from an empty table, so the table never
\* holds a row of an earlier run while the files are processed, and two
\* full-refresh runs over the same input end with the same number of rows.
C3_FullRefreshSameCount ==
  /\ (main_pc # "setup" /\ ~incremental) =>
       \A i \in 1..Len(table) : table[i].import_date = run_no
  /\ \A i \in 1..Len(run_rows) : \A j \in 1..Len(run_rows) :
       (~run_modes[i] /\ ~run_modes[j]) => run_rows[i] = run_rows[j]

\* C3 witness: two full-refresh runs over an input with a file have finished,
\* and the table holds no row of an earlier run.
C3_Witness ==
  /\ TwoRunsDone(FALSE)
  /\ \E i \in 1..Len(FILELIST) : disk[i].exists
  /\ Len(run_rows) = 2
  /\ table = <<>>

\* The block at the head of the pipe has no address that can be parsed.
UnparseableAtHead ==
  /\ jobs_pipe # <<>>
  /\ Head(jobs_pipe) # None
  /\ parse_property_inetnum(Head(jobs_pipe).v).kind = "none"

\* C6: a worker that takes a block without a parseable address writes no
\* record, logs a warning and is otherwise as it was before the block: it goes
\* on with the next item of the queue, and no other process is affected.
C6_UnparseableBlockSkipped ==
  [][ \A w \in 1..NUM_WORKERS :
        (UnparseableAtHead /\ workers'[w] # workers[w] /\ workers[w].pc = "running") =>
          /\ workers'[w] = [workers[w] EXCEPT !.warnings = @ + 1]
          /\ workers'[w].pc = "running"
          /\ table' = table
          /\ main_pc' = main_pc
          /\ \A v \in 1..NUM_WORKERS : v # w => workers'[v] = workers[v] ]_vars

\* C6 witness: a worker that skipped a block went on to the end of the queue
\* and ended normally.
C6_Witness ==
  \E w \in 1..NUM_WORKERS : workers[w].warnings >= 1 /\ workers[w].pc = "exited"

\* The items of the queue in the order the workers will get them.
Queued == jobs_pipe \o jobs_buffer

\* The number of sentinels in a sequence of queue items.
Sentinels(q) == Cardinality({ i \in 1..Len(q) : q[i] = None })

\* The number of sentinels main has put for the current file.
SentinelsPut == IF put_idx > Len(blocks) THEN put_idx - Len(blocks) ELSE 0

\* The workers that ended on a sentinel.
Exited == { w \in 1..NUM_WORKERS : workers[w].pc = "exited" }

\* A step that takes the item at the head of the pipe.
ItemTaken ==
  /\ jobs_pipe # <<>>
  /\ jobs_pipe' = Tail(jobs_pipe)
  /\ jobs_buffer' = jobs_buffer
  /\ main_pc' = main_pc

\* C16: for each file main puts one sentinel per worker, all of them behind
\* the last block; a worker ends normally only by getting a sentinel and gets
\* nothing after it, so each worker takes at most one sentinel and none ends
\* normally while a block is still queued or still to be put.
C16_SentinelPerWorker ==
  /\ [](/\ SentinelsPut <= NUM_WORKERS
        /\ main_pc = "join" => SentinelsPut = NUM_WORKERS
        /\ \A i \in 1..Len(Queued) : \A j \in 1..Len(Queued) :
             (i < j /\ Queued[i] = None) => Queued[j] = None
        /\ Sentinels(Queued) > 0 => put_idx >= Len(blocks)
        /\ Sentinels(Queued) + Cardinality(Exited) = SentinelsPut
        /\ Exited # {} =>
             /\ put_idx >= Len(blocks)
             /\ \A i \in 1..Len(Queued) : Queued[i] = None)
  /\ [][ \A w \in 1..NUM_WORKERS :
           /\ (workers[w].pc # "exited" /\ workers'[w].pc = "exited") =>
                /\ workers[w].pc = "running"
                /\ jobs_pipe # <<>>
                /\ Head(jobs_pipe) = None
                /\ jobs_pipe' = Tail(jobs_pipe)
                /\ jobs_buffer' = jobs_buffer
           /\ (workers[w].pc = "exited" /\ ItemTaken) =>
                /\ workers'[w] = workers[w]
                /\ \E v \in 1..NUM_WORKERS :
                     workers[v].pc = "running" /\ workers'[v] # workers[v] ]_vars

\* C16 witness: every worker of a file with a block has ended on its sentinel,
\* and no sentinel is left in the queue.
C16_Witness ==
  /\ main_pc = "join"
  /\ Len(blocks) >= 1
  /\ Exited = 1..NUM_WORKERS
  /\ Queued = <<>>

\* The number of blocks worker w has taken off the queue and finished with:
\* those it wrote and those it skipped with a warning.
Dequeued(w) == workers[w].blocks_done + workers[w].warnings

\* The blocks taken by the workers 1..n together.
RECURSIVE DequeuedUpTo(_)
DequeuedUpTo(n) == IF n = 0 THEN 0 ELSE DequeuedUpTo(n - 1) + Dequeued(n)

\* The number of blocks main has put for the current file.
BlocksPut == IF put_idx < Len(blocks) THEN put_idx ELSE Len(blocks)

\* No worker of the current file has ended on an exception.
NoWorkerFailed == \A w \in 1..NUM_WORKERS : workers[w].pc # "failed"

\* Every join of the current file has returned.
FileDone ==
  /\ main_pc \notin {"put", "join"}
  /\ \A w \in 1..NUM_WORKERS : workers[w].pc # "none"

\* C17: every block of a file is taken off the queue by exactly one worker.
\* Each get hands the head of the queue to one running worker and to no other;
\* while no worker has failed, the blocks put are those still queued plus
\* those the workers have taken; and when every join has returned with no
\* worker failure the queue is empty and the workers' counts add up to the
\* number of blocks of the file.
C17_BlockTakenOnce ==
  /\ [](NoWorkerFailed =>
          /\ DequeuedUpTo(NUM_WORKERS) + (Len(Queued) - Sentinels(Queued)) = BlocksPut
          /\ FileDone =>
               /\ Queued = <<>>
               /\ DequeuedUpTo(NUM_WORKERS) = Len(blocks))
  /\ [][ (ItemTaken /\ Head(jobs_pipe) # None) =>
           \E w \in 1..NUM_WORKERS :
             /\ workers[w].pc = "running"
             /\ workers'[w] # workers[w]
             /\ workers'[w].pc # "failed" =>
                  workers'[w].blocks_done + workers'[w].warnings = Dequeued(w) + 1
             /\ \A v \in 1..NUM_WORKERS : v # w => workers'[v] = workers[v] ]_vars

\* C17 witness: a file of three blocks is done with no worker failure, and
\* both of two workers took a block.
C17_Witness ==
  /\ FileDone
  /\ NoWorkerFailed
  /\ Len(blocks) = 3
  /\ Dequeued(1) >= 1
  /\ Dequeued(2) >= 1

\* A worker of the current file has ended on an exception.
WorkerFailed == \E w \in 1..NUM_WORKERS : workers[w].pc = "failed"

Failed == { w \in 1..NUM_WORKERS : workers[w].pc = "failed" }

\* C27: when workers of a file end on an exception and at least one does
\* not, main still reaches the state where every join has returned; by then
\* every worker that did not fail has ended on a sentinel and no block is
\* left in the queue. The step in which a worker fails changes neither the
\* table nor another worker: what was committed stays, and only the failing
\* worker's uncommitted rows are dropped.
C27_SurvivorsFinishFile ==
  /\ (main_pc = "put") ~> (FileDone \/ Failed = 1..NUM_WORKERS)
  /\ [](FileDone => Exited \cup Failed = 1..NUM_WORKERS)
  /\ []((FileDone /\ Exited # {}) => \A i \in 1..Len(Queued) : Queued[i] = None)
  /\ [][ \A w \in 1..NUM_WORKERS :
           (workers[w].pc = "running" /\ workers'[w].pc = "failed") =>
             /\ table' = table
             /\ ItemTaken /\ Head(jobs_pipe) # None
             /\ \A v \in 1..NUM_WORKERS : v # w => workers'[v] = workers[v] ]_vars

\* C27 witness: the joins of a file of two blocks have returned, one worker
\* having failed and the other having ended on its sentinel.
C27_Witness ==
  /\ FileDone
  /\ Len(blocks) = 2
  /\ Failed # {}
  /\ Exited # {}

\* C28: a worker ends normally only through the commit of what it has
\* written and the close of its session, so when every join of a file has
\* returned and no worker failed, no worker holds an uncommitted record and
\* every session is closed, whatever the number of blocks a worker took.
C28_ExitCommitsAndCloses ==
  /\ []((FileDone /\ NoWorkerFailed) =>
          \A w \in 1..NUM_WORKERS :
            workers[w].pending = <<>> /\ workers[w].session = "closed")
  /\ [][ \A w \in 1..NUM_WORKERS :
           (workers[w].pc = "running" /\ workers'[w].pc = "exited") =>
             /\ table' = commit(table, workers[w].pending, incremental)
             /\ workers'[w].pending = <<>>
             /\ workers'[w].session = "closed" ]_vars

\* C28 witness: the joins of a file have returned with no worker failure, one
\* worker having taken two blocks and the other none.
C28_Witness ==
  /\ FileDone
  /\ NoWorkerFailed
  /\ \E w \in 1..NUM_WORKERS : Dequeued(w) >= 2
  /\ \E w \in 1..NUM_WORKERS : Dequeued(w) = 0 /\ workers[w].session = "closed"

(***************************************************************************)
(* Claims about SpecStore                                                  *)
(***************************************************************************)

\* The rows of a table with the key of a row.
SameKey(tbl, row) ==
  {i \in 1..Len(tbl) : tbl[i].inetnum = row.inetnum /\ tbl[i].source = row.source}

\* The fields C11 lists as replaced by a write on an existing key.
ReplacedFields ==
  { "netname", "description", "country", "maintained_by", "created", "last_modified",
    "status", "import_date" }

\* C11: an incremental write on a key the table holds replaces netname,
\* description, country, maintained_by, created, last_modified, status and
\* import_date of that row, keeps its inetnum and source, keeps every other
\* row and adds none; a write on a new key adds exactly one row, the row
\* written.
C11_UpsertReplacesOrAdds ==
  [][ IF SameKey(st_table, st_data') # {}
      THEN /\ Len(st_table') = Len(st_table)
           /\ \A i \in 1..Len(st_table) :
                IF i \in SameKey(st_table, st_data')
                THEN /\ \A f \in ReplacedFields : st_table'[i][f] = st_data'[f]
                     /\ st_table'[i].inetnum = st_table[i].inetnum
                     /\ st_table'[i].source = st_table[i].source
                ELSE st_table'[i] = st_table[i]
      ELSE st_table' = Append(st_table, st_data') ]_vars

\* The fields C20 lists as mutable: all but the identity and created.
MutableFields ==
  { "netname", "description", "country", "maintained_by", "last_modified", "status",
    "import_date" }

\* C20: an incremental write that conflicts with a row on (inetnum, source)
\* overwrites the mutable fields of the row and keeps its inetnum, its source
\* and its created value.
C20_UpsertKeepsCreated ==
  [][ \A i \in SameKey(st_table, st_data') :
        /\ \A f \in MutableFields : st_table'[i][f] = st_data'[f]
        /\ st_table'[i].inetnum = st_table[i].inetnum
        /\ st_table'[i].source = st_table[i].source
        /\ st_table'[i].created = st_table[i].created ]_vars

\* C21: after any sequence of incremental writes, the table holds at most
\* one row for each (inetnum, source), and the row with the key of the last
\* write carries the mutable fields of that write, all of them together.
C21_LastWriterWins ==
  /\ \A i \in 1..Len(st_table) : SameKey(st_table, st_table[i]) = {i}
  /\ st_result # "none" =>
       \E i \in SameKey(st_table, st_data) :
         \A f \in MutableFields : st_table[i][f] = st_data[f]

(***************************************************************************)
(* Claims about SpecSource                                                 *)
(***************************************************************************)

\* name begins with word.
BeginsWith(name, word) ==
  Len(name) >= Len(word) /\ SubSeq(name, 1, Len(word)) = word

\* name holds word somewhere.
Holds(name, word) ==
  \E i \in 1..(Len(name) - Len(word) + 1) : SubSeq(name, i, i + Len(word) - 1) = word

RuleWords == <<s_afrinic, s_apnic, s_arin, s_lacnic, s_ripe>>

RuleMatches(name, k) ==
  IF RuleWords[k] = s_lacnic THEN Holds(name, s_lacnic) ELSE BeginsWith(name, RuleWords[k])

PrefixWords == {s_afrinic, s_apnic, s_arin, s_ripe}

\* C23: the four tests on the beginning of the name come before the lacnic
\* test: a name that begins with afrinic, apnic, arin or ripe gets that tag
\* also when it holds lacnic, and the tag lacnic is given only to a name that
\* begins with none of the four.
C23_PrefixBeforeLacnic ==
  gs_result # Pending =>
    /\ \A word \in PrefixWords :
         (BeginsWith(gs_filename, word) /\ Holds(gs_filename, s_lacnic))
           => gs_result = Str(word)
    /\ gs_result = Str(s_lacnic) =>
         \A word \in PrefixWords : ~BeginsWith(gs_filename, word)

(***************************************************************************)
(* Claims about SpecRate                                                   *)
(***************************************************************************)

\* The number of accepted requests of client c with a timestamp in
\* (t - RATE_LIMIT_WINDOW, t].
InWindow(c, t) ==
  Cardinality({i \in 1..Len(rl_accepted[c]) :
                 rl_accepted[c][i] > t - RATE_LIMIT_WINDOW /\ rl_accepted[c][i] <= t})

\* C15: for every client and every instant t the accepted requests of the
\* client with a timestamp in (t - window_seconds, t] are at most
\* max_requests, and a request of a client that has max_requests accepted
\* requests in the current window is answered 429 and not recorded.
C15_WindowNeverExceeded ==
  /\ [](\A c \in ClientIds : \A t \in 0..MaxTime : InWindow(c, t) <= RATE_LIMIT_REQUESTS)
  /\ [][ \A c \in ClientIds :
           (rl_last'.kind = "api" /\ rl_last'.client = c
              /\ InWindow(c, rl_now) >= RATE_LIMIT_REQUESTS)
             => (rl_last'.status = 429 /\ rl_accepted' = rl_accepted) ]_vars

\* C15 witness: a client whose first max_requests requests have left the
\* window has filled the window again and is refused.
C15_Witness ==
  /\ rl_last.kind = "api"
  /\ rl_last.status = 429
  /\ Len(rl_accepted[rl_last.client]) = 2 * RATE_LIMIT_REQUESTS
  /\ InWindow(rl_last.client, rl_now) = RATE_LIMIT_REQUESTS

====
